---------------------------- MODULE Spec2Model ----------------------------
(***************************************************************************)
(* serde_yaml2: the encoder (src/src/ser/mod.rs), the decoder              *)
(* (src/src/de/mod.rs) and the dynamic node bridge (src/src/wrapper).      *)
(*                                                                         *)
(* Text is a sequence of one-character strings.  A typed value is held     *)
(* together with the name of its type (TypeDef gives the shape):           *)
(*   integers and booleans as themselves, a String as its characters,      *)
(*   a sequence, tuple or struct as the sequence of its components,        *)
(*   a string-keyed map as its <<key, value>> entries in key order,        *)
(*   an Option as <<>> (None) or <<v>> (Some(v)), an enum value as         *)
(*   <<variant name, payload components>>.                                 *)
(***************************************************************************)
EXTENDS Integers, Sequences, FiniteSets, TLC

VARIABLES
    origin,  \* what the caller holds first: "value" (to_string, then from_str),
             \* "str" (serialize_str on an encoder at some level), "events"
    pc,      \* position of the caller: "start", "encoded", "ready", "done"
    ty,      \* name of the type of the value in hand (the target type of a decode)
    val,     \* the value given to to_string
    text,    \* the String returned by to_string
    enc,     \* the encoder's final state: [out, level, err]
    events,  \* the events the event source yields for the text in hand
    res,     \* the result of the decode: [ok, val, pos]
    frames   \* a decode followed pull by pull: the visitors that are running,
             \* the innermost last

vars == <<origin, pc, ty, val, text, enc, events, res, frames>>

-----------------------------------------------------------------------------
(* Bounds of the model *)

\* longest String value drawn at top level
MaxStrLen == 4
\* longest String value drawn inside a container
MaxElemStrLen == 1
\* most elements of a drawn sequence or entries of a drawn map
MaxSeqLen == 2
\* most elements of a sequence drawn inside another container
MaxInnerLen == 1
\* deepest level of the encoder that serialize_str is drawn at
MaxLevel == 2

-----------------------------------------------------------------------------
(* Characters and text *)

NL == "\n"
SP == " "
QUOTE == "'"
BSLASH == "\\"

Digits == <<"0", "1", "2", "3", "4", "5", "6", "7", "8", "9">>

IsDigit(c) == \E d \in 1..10 : Digits[d] = c

DigitVal(c) == (CHOOSE d \in 1..10 : Digits[d] = c) - 1

RECURSIVE Spaces(_)
Spaces(n) == IF n <= 0 THEN <<>> ELSE <<SP>> \o Spaces(n - 1)

Contains(s, c) == \E i \in 1..Len(s) : s[i] = c

\* every sequence over the set A of length at most n
RECURSIVE StrsUpTo(_, _)
StrsUpTo(A, n) ==
    IF n = 0 THEN {<<>>}
    ELSE LET shorter == StrsUpTo(A, n - 1)
         IN  shorter \cup {Append(s, c) : s \in shorter, c \in A}

\* Display for the integer types: the decimal form, '-' before a negative one
RECURSIVE NatToStr(_)
NatToStr(n) ==
    IF n < 10 THEN <<Digits[n + 1]>>
    ELSE NatToStr(n \div 10) \o <<Digits[(n % 10) + 1]>>

IntToStr(n) == IF n < 0 THEN <<"-">> \o NatToStr(0 - n) ELSE NatToStr(n)

\* str::lines: the pieces between "\n", a final empty piece left out, and
\* one trailing "\r" taken off every piece
RECURSIVE SplitNL(_, _, _)
SplitNL(s, i, cur) ==
    IF i > Len(s) THEN <<cur>>
    ELSE IF s[i] = NL THEN <<cur>> \o SplitNL(s, i + 1, <<>>)
    ELSE SplitNL(s, i + 1, Append(cur, s[i]))

StripCR(l) ==
    IF Len(l) > 0 /\ l[Len(l)] = "\r" THEN SubSeq(l, 1, Len(l) - 1) ELSE l

lines(s) ==
    LET parts == SplitNL(s, 1, <<>>)
        kept  == IF parts[Len(parts)] = <<>>
                 THEN SubSeq(parts, 1, Len(parts) - 1) ELSE parts
    IN  [i \in 1..Len(kept) |-> StripCR(kept[i])]


-----------------------------------------------------------------------------
(* The types of the values: the shapes the tests and examples declare *)

Name_x == <<"x">>
Name_y == <<"y">>
VariantA == <<"V", "a", "r", "i", "a", "n", "t", "A">>
VariantB == <<"V", "a", "r", "i", "a", "n", "t", "B">>
VariantC == <<"V", "a", "r", "i", "a", "n", "t", "C">>
VariantD == <<"V", "a", "r", "i", "a", "n", "t", "D">>
VariantE == <<"V", "a", "r", "i", "a", "n", "t", "E">>

IntType(lo, hi) == [k |-> "int", lo |-> lo, hi |-> hi]

\* TLC's integers end at 2^31 - 1: the ranges of the wider types are cut there
TypeDef(tn) ==
    CASE tn = "i8"  -> IntType(-128, 127)
      [] tn = "i16" -> IntType(-32768, 32767)
      [] tn = "i32" -> IntType(-2147483647 - 1, 2147483647)
      [] tn = "i64" -> IntType(-2147483647 - 1, 2147483647)
      [] tn = "u8"  -> IntType(0, 255)
      [] tn = "u16" -> IntType(0, 65535)
      [] tn = "u32" -> IntType(0, 2147483647)
      [] tn = "u64" -> IntType(0, 2147483647)
      [] tn = "f64" -> [k |-> "float"]
      [] tn = "bool" -> [k |-> "bool"]
      [] tn = "char" -> [k |-> "char"]
      [] tn = "String" -> [k |-> "string"]
      [] tn = "()" -> [k |-> "unit"]
      [] tn = "Vec<i32>" -> [k |-> "seq", elem |-> "i32"]
      [] tn = "Vec<String>" -> [k |-> "seq", elem |-> "String"]
      [] tn = "Vec<Vec<i32>>" -> [k |-> "seq", elem |-> "Vec<i32>"]
      [] tn = "Vec<TestStruct>" -> [k |-> "seq", elem |-> "TestStruct"]
      [] tn = "Vec<TestNestedStruct>" ->
            [k |-> "seq", elem |-> "TestNestedStruct"]
      [] tn = "Vec<Option<i32>>" -> [k |-> "seq", elem |-> "Option<i32>"]
      [] tn = "Vec<TestEnum>" -> [k |-> "seq", elem |-> "TestEnum"]
      [] tn = "(i32, String, bool)" ->
            [k |-> "tuple", types |-> <<"i32", "String", "bool">>]
      [] tn = "(i32, Vec<i32>)" ->
            [k |-> "tuple", types |-> <<"i32", "Vec<i32>">>]
      [] tn = "(i32, i8, i64)" ->
            [k |-> "tuple", types |-> <<"i32", "i8", "i64">>]
      [] tn = "TestEmptyTupleStruct" -> [k |-> "tuple", types |-> <<>>]
      [] tn = "TestStruct" ->
            [k |-> "struct", fields |-> <<Name_x, Name_y>>,
             types |-> <<"i32", "String">>]
      [] tn = "SubTestStruct" ->
            [k |-> "struct", fields |-> <<Name_x>>, types |-> <<"String">>]
      [] tn = "TestNestedStruct" ->
            [k |-> "struct", fields |-> <<Name_x, Name_y>>,
             types |-> <<"SubTestStruct", "Vec<i32>">>]
      [] tn = "EmptyStruct" ->
            [k |-> "struct", fields |-> <<>>, types |-> <<>>]
      [] tn = "StructWithEnum" ->
            [k |-> "struct", fields |-> <<Name_x, Name_y>>,
             types |-> <<"i32", "TestEnum">>]
      [] tn = "ExampleStruct" ->
            [k |-> "struct", fields |-> <<Name_x, Name_y, <<"z">>>>,
             types |-> <<"i64", "String", "Vec<i32>">>]
      [] tn = "YamlNodeWrapper" -> [k |-> "node"]
      [] tn = "StructWithNode" ->
            [k |-> "struct",
             fields |-> <<<<"k", "i", "n", "d">>, <<"d", "a", "t", "a">>>>,
             types |-> <<"String", "YamlNodeWrapper">>]
      [] tn = "Bytes" -> [k |-> "bytes"]
      [] tn = "Vec<Bytes>" -> [k |-> "seq", elem |-> "Bytes"]
      [] tn = "Option<Bytes>" -> [k |-> "option", inner |-> "Bytes"]
      [] tn = "StructWithBytes" ->
            [k |-> "struct", fields |-> <<Name_x, Name_y>>,
             types |-> <<"i32", "Bytes">>]
      [] tn = "Vec<StructWithBytes>" ->
            [k |-> "seq", elem |-> "StructWithBytes"]
      [] tn = "BTreeMap<String, Bytes>" ->
            [k |-> "map", key |-> "String", value |-> "Bytes"]
      [] tn = "StructWithText" ->
            [k |-> "struct", fields |-> <<Name_x, Name_y>>,
             types |-> <<"String", "i32">>]
      [] tn = "StructWithOptions" ->
            [k |-> "struct", fields |-> <<Name_x, Name_y>>,
             types |-> <<"Option<Vec<String>>", "Option<SubTestStruct>">>]
      [] tn = "BTreeMap<String, i32>" ->
            [k |-> "map", key |-> "String", value |-> "i32"]
      [] tn = "StructWithMap" ->
            [k |-> "struct", fields |-> <<Name_x, Name_y>>,
             types |-> <<"BTreeMap<String, i32>", "i32">>]
      [] tn = "Vec<EmptyStruct>" -> [k |-> "seq", elem |-> "EmptyStruct"]
      [] tn = "Option<i32>" -> [k |-> "option", inner |-> "i32"]
      [] tn = "Option<String>" -> [k |-> "option", inner |-> "String"]
      [] tn = "Option<Option<i32>>" ->
            [k |-> "option", inner |-> "Option<i32>"]
      [] tn = "Option<Vec<String>>" -> [k |-> "option", inner |-> "Vec<String>"]
      [] tn = "Option<SubTestStruct>" ->
            [k |-> "option", inner |-> "SubTestStruct"]
      [] tn = "TestEnum" ->
            [k |-> "enum",
             variants |-> <<
               [name |-> VariantA, kind |-> "unit", fields |-> <<>>,
                types |-> <<>>],
               [name |-> VariantB, kind |-> "tuple", fields |-> <<>>,
                types |-> <<>>],
               [name |-> VariantC, kind |-> "tuple", fields |-> <<>>,
                types |-> <<"i32", "String">>],
               [name |-> VariantD, kind |-> "newtype", fields |-> <<>>,
                types |-> <<"TestStruct">>],
               [name |-> VariantE, kind |-> "struct",
                fields |-> <<Name_x, Name_y>>, types |-> <<"i32", "bool">>]>>]

\* the numbers in the texts: what str::parse reads and what Display writes

RECURSIVE DigitsValue(_, _)
DigitsValue(s, acc) ==
    IF s = <<>> THEN acc ELSE DigitsValue(Tail(s), 10 * acc + DigitVal(Head(s)))

AllDigits(s) == \A i \in 1..Len(s) : IsDigit(s[i])

\* an integer parse that wraps a number outside the range into the width
ParseInt_wrapping(s, lo, hi) ==
    LET signed == s # <<>> /\ s[1] \in {"+", "-"}
        body   == IF signed THEN Tail(s) ELSE s
        neg    == signed /\ s[1] = "-"
        n      == IF neg THEN 0 - DigitsValue(body, 0) ELSE DigitsValue(body, 0)
    IN  IF body = <<>> \/ ~AllDigits(body) \/ Len(body) > 9 \/ (neg /\ lo >= 0)
        THEN [ok |-> FALSE, n |-> 0]
        ELSE IF n < lo \/ n > hi
             THEN [ok |-> TRUE, n |-> lo + ((n - lo) % ((hi - lo) + 1))]
        ELSE [ok |-> TRUE, n |-> n]

\* str::parse for an integer type of the range lo..hi: an optional sign
\* ('-' only for a signed type), then one digit or more, and the number
\* must be in the range
ParseInt(s, lo, hi) ==
    LET signed == s # <<>> /\ s[1] \in {"+", "-"}
        body   == IF signed THEN Tail(s) ELSE s
        neg    == signed /\ s[1] = "-"
        n      == IF neg THEN 0 - DigitsValue(body, 0) ELSE DigitsValue(body, 0)
    IN  IF body = <<>> \/ ~AllDigits(body) \/ Len(body) > 9 \/ (neg /\ lo >= 0)
        THEN [ok |-> FALSE, n |-> 0]
        ELSE IF n < lo \/ n > hi THEN [ok |-> FALSE, n |-> 0]
        ELSE [ok |-> TRUE, n |-> n]

\* the position of the '.' in s, 0 if there is none
DotAt(s) == IF Contains(s, ".") THEN CHOOSE i \in 1..Len(s) : s[i] = "." ELSE 0

RECURSIVE DropTrailingZeros(_)
DropTrailingZeros(s) ==
    IF Len(s) > 0 /\ s[Len(s)] = "0"
    THEN DropTrailingZeros(SubSeq(s, 1, Len(s) - 1)) ELSE s

\* str::parse::<f64> on decimal text (sign, digits, '.', digits); the value
\* is [m, e] for m / 10^e.  Exponents, inf and nan are not in the texts of the
\* model.
ParseFloat(s) ==
    LET signed == s # <<>> /\ s[1] \in {"+", "-"}
        body   == IF signed THEN Tail(s) ELSE s
        dot    == DotAt(body)
        ip     == IF dot = 0 THEN body ELSE SubSeq(body, 1, dot - 1)
        fp     == IF dot = 0 THEN <<>>
                  ELSE DropTrailingZeros(SubSeq(body, dot + 1, Len(body)))
        m      == DigitsValue(ip \o fp, 0)
    IN  IF ~AllDigits(ip) \/ ~AllDigits(fp) \/ Len(ip) + Len(fp) > 9
           \/ (ip = <<>> /\ (dot = 0 \/ Len(body) = 1))
        THEN [ok |-> FALSE, n |-> 0]
        ELSE [ok |-> TRUE,
              n |-> [m |-> IF signed /\ s[1] = "-" THEN 0 - m ELSE m,
                     e |-> Len(fp)]]

\* f64::to_string of the value m / 10^e with e digits after the point
FloatToStr(f) ==
    LET RECURSIVE Pow10(_)
        Pow10(k) == IF k = 0 THEN 1 ELSE 10 * Pow10(k - 1)
        RECURSIVE Pad(_, _)
        Pad(t, n) == IF Len(t) >= n THEN t ELSE Pad(<<"0">> \o t, n)
        a    == IF f.m < 0 THEN 0 - f.m ELSE f.m
        sign == IF f.m < 0 THEN <<"-">> ELSE <<>>
        ip   == NatToStr(a \div Pow10(f.e))
    IN  IF f.e = 0 THEN sign \o ip
        ELSE (sign \o ip) \o (<<".">> \o Pad(NatToStr(a % Pow10(f.e)), f.e))

-----------------------------------------------------------------------------
(* The encoder: src/src/ser/mod.rs.  Its state is the text written so far,  *)
(* the indentation level, and the error that ended the call ("" for none;   *)
(* "panic" for a failed assertion).  low records the lowest level the       *)
(* encoder has been at since the call began.                                *)

NewSerializer == [out |-> <<>>, level |-> 0, err |-> "", low |-> 0]

Good(st) == st.err = ""

Write(st, s) == [st EXCEPT !.out = @ \o s]

\* an indentation of one space for every level
write_indent_by_level(level) == IF level <= 0 THEN <<>> ELSE Spaces(level)

\* for _ in 0..=level: level + 1 spaces
write_indent(level) == IF level <= 0 THEN <<>> ELSE Spaces(level + 1)

\* an escape that doubles the quote
RECURSIVE escape_str_doubled(_)
escape_str_doubled(source) ==
    IF source = <<>> THEN <<>>
    ELSE (IF Head(source) = QUOTE THEN <<QUOTE, QUOTE>> ELSE <<Head(source)>>)
         \o escape_str_doubled(Tail(source))

RECURSIVE escape_str(_)
escape_str(source) ==
    IF source = <<>> THEN <<>>
    ELSE (IF Head(source) = QUOTE THEN <<BSLASH, QUOTE>> ELSE <<Head(source)>>)
         \o escape_str(Tail(source))

RECURSIVE WriteLines(_, _, _)
WriteLines(ls, i, level) ==
    IF i > Len(ls) THEN <<>>
    ELSE <<NL>> \o write_indent(level + 1) \o ls[i] \o WriteLines(ls, i + 1, level)

\* a write_str that walks the pieces of split('\n'), the last empty one too
write_str_split(v, level) ==
    IF Contains(v, NL)
    THEN <<"|", "-">> \o WriteLines(SplitNL(v, 1, <<>>), 1, level)
    ELSE <<QUOTE>> \o escape_str(v) \o <<QUOTE>>

write_str(v, level) ==
    IF Contains(v, NL)
    THEN <<"|", "-">> \o WriteLines(lines(v), 1, level)
    ELSE <<QUOTE>> \o escape_str(v) \o <<QUOTE>>

incr_level(st) == [st EXCEPT !.level = @ + 1]

\* an encoder that never steps its level back
decr_level_skipped(st) == st

decr_level(st) ==
    IF st.level = -1 THEN [st EXCEPT !.err = "panic"]
    ELSE [st EXCEPT !.level = @ - 1,
                    !.low = IF st.level - 1 < @ THEN st.level - 1 ELSE @]

serialize_none(st) == Write(st, <<"~">>)

serialize_seq(st, len) == IF len = 0 THEN Write(st, <<"[">>) ELSE st

\* a process_end that leaves an empty sequence open
process_end_silent(st, len) == st

SequenceSerializer_process_end(st, len) ==
    IF len = 0 THEN Write(st, <<"]">>) ELSE st

RECURSIVE serialize(_, _, _)
RECURSIVE YamlNodeWrapper_serialize(_, _)
RECURSIVE SerializeElements(_, _, _, _)
RECURSIVE SerializeFields(_, _, _, _, _)
RECURSIVE SerializeEntries(_, _, _, _, _)

\* SequenceSerializer::process_element
\* a process_element that puts the element on the line of its dash
process_element_inline(tn, value, st) ==
    LET s1 == incr_level(Write(st, <<"-", SP>>))
        s2 == serialize(tn, value, s1)
        s3 == decr_level(s2)
        s4 == Write(s3, <<NL>>)
    IN  IF ~Good(s2) THEN s2
        ELSE IF ~Good(s3) THEN s3
        ELSE Write(s4, write_indent(s4.level))

process_element(tn, value, st) ==
    LET s1 == incr_level(Write(st, <<"-", SP, NL>>))
        s2 == serialize(tn, value, Write(s1, write_indent(s1.level)))
        s3 == decr_level(s2)
        s4 == Write(s3, <<NL>>)
    IN  IF ~Good(s2) THEN s2
        ELSE IF ~Good(s3) THEN s3
        ELSE Write(s4, write_indent(s4.level))

\* a process_key that writes a string key as it is, without quotes
process_key_plain(tn, key, st) ==
    LET s1 == IF TypeDef(tn).k = "string" THEN Write(st, key)
              ELSE serialize(tn, key, st)
        s2 == incr_level(Write(s1, <<":", NL>>))
    IN  IF ~Good(s1) THEN s1 ELSE Write(s2, write_indent(s2.level))

\* MapSerializer::process_key
process_key(tn, key, st) ==
    LET s1 == serialize(tn, key, st)
        s2 == incr_level(Write(s1, <<":", NL>>))
    IN  IF ~Good(s1) THEN s1 ELSE Write(s2, write_indent(s2.level))

\* MapSerializer::process_value
process_value(tn, value, st) ==
    LET s1 == serialize(tn, value, st)
        s2 == decr_level(s1)
        s3 == Write(s2, <<NL>>)
    IN  IF ~Good(s1) THEN s1
        ELSE IF ~Good(s2) THEN s2
        ELSE Write(s3, write_indent(s3.level))

\* the element types of a sequence type are all tn; of a tuple, types[i]
SerializeElements(types, vs, i, st) ==
    IF i > Len(vs) \/ ~Good(st) THEN st
    ELSE SerializeElements(types, vs, i + 1, process_element(types[i], vs[i], st))

\* SerializeStruct::serialize_field, field by field: the key is a &'static str
SerializeFields(fields, types, vs, i, st) ==
    IF i > Len(vs) \/ ~Good(st) THEN st
    ELSE LET s1 == process_key("String", fields[i], st)
         IN  SerializeFields(fields, types, vs, i + 1,
                 IF Good(s1) THEN process_value(types[i], vs[i], s1) ELSE s1)

\* a map encoder that writes a pair of braces for a map without entries
RECURSIVE SerializeEntries_braced(_, _, _, _, _)
SerializeEntries_braced(kt, vt, es, i, st) ==
    IF es = <<>> THEN Write(st, <<"{", "}">>)
    ELSE IF i > Len(es) \/ ~Good(st) THEN st
    ELSE LET s1 == process_key(kt, es[i][1], st)
         IN  SerializeEntries_braced(kt, vt, es, i + 1,
                 IF Good(s1) THEN process_value(vt, es[i][2], s1) ELSE s1)

\* SerializeMap::serialize_key and serialize_value, entry by entry
SerializeEntries(kt, vt, es, i, st) ==
    IF i > Len(es) \/ ~Good(st) THEN st
    ELSE LET s1 == process_key(kt, es[i][1], st)
         IN  SerializeEntries(kt, vt, es, i + 1,
                 IF Good(s1) THEN process_value(vt, es[i][2], s1) ELSE s1)

VariantOf(d, name) ==
    CHOOSE i \in 1..Len(d.variants) : d.variants[i].name = name

\* a unit variant written as its bare name
serialize_unit_variant_bare(variant, st) == Write(st, variant)

serialize_unit_variant(variant, st) ==
    serialize_none(Write(st, variant \o <<":", SP>>))

serialize_newtype_variant(variant, tn, value, st) ==
    LET s1 == incr_level(Write(st, variant \o <<":", NL>>))
        s2 == serialize(tn, value, Write(s1, write_indent(s1.level)))
        s3 == decr_level(s2)
    IN  IF Good(s2) THEN s3 ELSE [s3 EXCEPT !.err = s2.err]

serialize_tuple_variant(variant, len, st) ==
    IF len = 0
    THEN serialize_seq(Write(st, variant \o <<":", SP>>), len)
    ELSE LET s1 == incr_level(Write(st, variant \o <<":", NL>>))
         IN  serialize_seq(Write(s1, write_indent(s1.level)), len)

\* an end of a tuple variant that steps the level back for an empty one too
SerializeTupleVariant_end_always(st, len) ==
    LET s1 == decr_level(st)
    IN  IF Good(s1) THEN SequenceSerializer_process_end(s1, len) ELSE s1

\* SerializeTupleVariant::end
SerializeTupleVariant_end(st, len) ==
    LET s1 == IF len > 0 THEN decr_level(st) ELSE st
    IN  IF Good(s1) THEN SequenceSerializer_process_end(s1, len) ELSE s1

\* a serialize_struct_variant that does not go one level in
serialize_struct_variant_flat(variant, st) == Write(st, variant \o <<":", NL>>)

serialize_struct_variant(variant, st) ==
    LET s1 == incr_level(Write(st, variant \o <<":", NL>>))
    IN  Write(s1, write_indent(s1.level))

\* SerializeStructVariant::end
SerializeStructVariant_end(st) == decr_level(st)

RepeatType(tn, n) == [i \in 1..n |-> tn]

serialize_enum(d, value, st) ==
    LET v == d.variants[VariantOf(d, value[1])]
        payload == value[2]
    IN  CASE v.kind = "unit" -> serialize_unit_variant(v.name, st)
          [] v.kind = "newtype" ->
                serialize_newtype_variant(v.name, v.types[1], payload[1], st)
          [] v.kind = "tuple" ->
                LET s1 == serialize_tuple_variant(v.name, Len(v.types), st)
                    s2 == SerializeElements(v.types, payload, 1, s1)
                IN  IF Good(s2) THEN SerializeTupleVariant_end(s2, Len(v.types))
                    ELSE s2
          [] v.kind = "struct" ->
                LET s1 == serialize_struct_variant(v.name, st)
                    s2 == SerializeFields(v.fields, v.types, payload, 1, s1)
                IN  IF Good(s2) THEN SerializeStructVariant_end(s2) ELSE s2

\* an unimplemented case that is passed over without a word
unimplemented_skipped(st) == st

\* unimplemented!(): the encode is aborted
unimplemented(st) == [st EXCEPT !.err = "panic"]

\* a serialize_bytes that writes nothing and reports no error
serialize_bytes_silent(st) == st

\* serialize_bytes: an error whatever the bytes are
serialize_bytes(st) == [st EXCEPT !.err = "UnsupportedSerializationError"]

\* <YamlNodeWrapper as Serialize>::serialize
YamlNodeWrapper_serialize(value, st) ==
    CASE value.t = "Real" ->
            LET parsed == ParseFloat(value.v)
            IN  IF parsed.ok THEN serialize("f64", parsed.n, st)
                ELSE [st EXCEPT
                        !.err = "UnsupportedSerializationError"]
      [] value.t = "Integer" -> serialize("i64", value.v, st)
      [] value.t = "String" -> serialize("String", value.v, st)
      [] value.t = "Boolean" -> serialize("bool", value.v, st)
      [] value.t = "Array" ->
            LET n  == Len(value.v)
                s1 == serialize_seq(st, n)
                s2 == SerializeElements(
                          RepeatType("YamlNodeWrapper", n),
                          value.v, 1, s1)
            IN  IF Good(s2)
                THEN SequenceSerializer_process_end(s2, n)
                ELSE s2
      [] value.t = "Hash" ->
            SerializeEntries("YamlNodeWrapper", "YamlNodeWrapper",
                             value.v, 1, st)
      [] value.t = "Null" -> serialize_none(st)
      [] value.t \in {"Alias", "BadValue"} -> unimplemented(st)

\* <T as Serialize>::serialize over the Serializer of YamlSerializer
serialize(tn, value, st) ==
    LET d == TypeDef(tn)
    IN  CASE d.k = "int" -> Write(st, IntToStr(value))
          [] d.k = "bool" ->
                Write(st, IF value THEN <<"t", "r", "u", "e">>
                          ELSE <<"f", "a", "l", "s", "e">>)
          [] d.k = "string" -> Write(st, write_str(value, st.level))
          [] d.k = "unit" -> serialize_none(st)
          [] d.k = "option" ->
                IF value = <<>> THEN serialize_none(st)
                ELSE serialize(d.inner, value[1], st)
          [] d.k = "seq" ->
                LET s1 == serialize_seq(st, Len(value))
                    s2 == SerializeElements(RepeatType(d.elem, Len(value)),
                                            value, 1, s1)
                IN  IF Good(s2) THEN SequenceSerializer_process_end(s2, Len(value))
                    ELSE s2
          [] d.k = "tuple" ->
                LET s1 == serialize_seq(st, Len(d.types))
                    s2 == SerializeElements(d.types, value, 1, s1)
                IN  IF Good(s2)
                    THEN SequenceSerializer_process_end(s2, Len(d.types))
                    ELSE s2
          [] d.k = "struct" -> SerializeFields(d.fields, d.types, value, 1, st)
          [] d.k = "map" -> SerializeEntries(d.key, d.value, value, 1, st)
          [] d.k = "enum" -> serialize_enum(d, value, st)
          [] d.k = "bytes" -> serialize_bytes(st)
          [] d.k = "float" -> Write(st, FloatToStr(value))
          [] d.k = "node" -> YamlNodeWrapper_serialize(value, st)

\* to_string: the text, or the error and no text
to_string(tn, value) ==
    LET st == serialize(tn, value, NewSerializer)
    IN  [ok |-> Good(st), text |-> IF Good(st) THEN st.out ELSE <<>>,
         err |-> st.err, level |-> st.level]

-----------------------------------------------------------------------------
(* The event source (yaml_rust2's Parser over the text), for the language   *)
(* the encoder writes: block sequences, block mappings with one-line keys,  *)
(* flow sequences of scalars, plain and single-quoted scalars and literal   *)
(* block scalars.  A scan failure is the pseudo event ScanError: peek and   *)
(* next_token return Err there, and at every later call.                    *)

Ev(e) == [e |-> e, v |-> <<>>, style |-> ""]

Scalar(v, style) == [e |-> "Scalar", v |-> v, style |-> style]

\* Event::empty_scalar, the event of a node with no text
EmptyScalar == Scalar(<<"~">>, "Plain")

\* the character at position i; "" past the end of the text
At(t, i) == IF i >= 1 /\ i <= Len(t) THEN t[i] ELSE ""

IsBlankZ(c) == c \in {SP, NL, ""}

RECURSIVE Col(_, _)
Col(t, i) == IF i <= 1 THEN 0 ELSE IF t[i - 1] = NL THEN 0 ELSE 1 + Col(t, i - 1)

RECURSIVE SkipSpaces(_, _)
SkipSpaces(t, i) == IF At(t, i) = SP THEN SkipSpaces(t, i + 1) ELSE i

RECURSIVE SkipBlank(_, _)
SkipBlank(t, i) == IF At(t, i) \in {SP, NL} THEN SkipBlank(t, i + 1) ELSE i

RECURSIVE DropTrailingSpaces(_)
DropTrailingSpaces(s) ==
    IF Len(s) > 0 /\ s[Len(s)] = SP
    THEN DropTrailingSpaces(SubSeq(s, 1, Len(s) - 1)) ELSE s

RECURSIVE CountBreaks(_, _)
CountBreaks(t, i) ==
    IF At(t, i) = NL THEN 1 + CountBreaks(t, i + 1)
    ELSE IF At(t, i) = SP THEN CountBreaks(t, i + 1)
    ELSE 0

RECURSIVE Breaks(_)
Breaks(n) == IF n <= 0 THEN <<>> ELSE <<NL>> \o Breaks(n - 1)

Failed(evs) == [ok |-> FALSE, evs |-> evs, pos |-> 0]

Parsed(evs, pos) == [ok |-> TRUE, evs |-> evs, pos |-> pos]

\* a single-quoted scalar from the character after the opening quote: '' is
\* one quote, a lone quote ends the scalar, line breaks are folded, and the
\* end of the text before the closing quote is a scan error
RECURSIVE ScanSingle(_, _, _)
ScanSingle(t, i, acc) ==
    LET c == At(t, i)
    IN  IF c = "" THEN [ok |-> FALSE, v |-> acc, pos |-> i]
        ELSE IF c = QUOTE /\ At(t, i + 1) = QUOTE
             THEN ScanSingle(t, i + 2, Append(acc, QUOTE))
        ELSE IF c = QUOTE THEN [ok |-> TRUE, v |-> acc, pos |-> i + 1]
        ELSE IF c = NL
             THEN LET n == CountBreaks(t, i)
                  IN  ScanSingle(t, SkipBlank(t, i),
                          DropTrailingSpaces(acc)
                              \o (IF n = 1 THEN <<SP>> ELSE Breaks(n - 1)))
        ELSE ScanSingle(t, i + 1, Append(acc, c))

\* a plain scalar on one line: it ends before ':' followed by a blank, at the
\* end of the line and, inside a flow sequence, before ',' and ']'
RECURSIVE PlainEnd(_, _, _)
PlainEnd(t, i, flow) ==
    LET c == At(t, i)
    IN  IF c \in {NL, ""} THEN i
        ELSE IF c = ":" /\ IsBlankZ(At(t, i + 1)) THEN i
        ELSE IF flow /\ c \in {",", "]", "["} THEN i
        ELSE PlainEnd(t, i + 1, flow)

ScanPlain(t, i, flow) ==
    LET e == PlainEnd(t, i, flow)
        v == DropTrailingSpaces(SubSeq(t, i, e - 1))
    IN  [ok |-> TRUE, v |-> v, pos |-> i + Len(v)]

\* the characters no plain scalar starts with, but that '-', '?' and ':' start
\* one when a character that is no blank follows (the double quote and the
\* backquote, which no text of the model holds, are left out)
Indicators ==
    {"-", "?", ":", ",", "[", "]", "{", "}", "#", "&", "*", "!", "|", ">",
     QUOTE, "%", "@"}

\* block scalar: leading empty lines and the indentation of the first line
RECURSIVE FirstLineIndent(_, _, _, _)
FirstLineIndent(t, i, max, breaks) ==
    LET k == SkipSpaces(t, i)
        m == IF Col(t, k) > max THEN Col(t, k) ELSE max
    IN  IF At(t, k) = NL THEN FirstLineIndent(t, k + 1, m, Append(breaks, NL))
        ELSE [pos |-> k, max |-> m, breaks |-> breaks]

\* block scalar: at most indent spaces and the empty lines before a line
RECURSIVE SkipIndent(_, _, _, _)
SkipIndent(t, i, indent, breaks) ==
    IF At(t, i) = SP /\ Col(t, i) < indent THEN SkipIndent(t, i + 1, indent, breaks)
    ELSE IF At(t, i) = NL THEN SkipIndent(t, i + 1, indent, Append(breaks, NL))
    ELSE [pos |-> i, breaks |-> breaks]

RECURSIVE LineEnd(_, _)
LineEnd(t, i) == IF At(t, i) \in {NL, ""} THEN i ELSE LineEnd(t, i + 1)

\* block scalar: the content lines at the indentation, literal style
RECURSIVE BlockLines(_, _, _, _, _, _)
BlockLines(t, i, indent, str, lead, trail) ==
    IF Col(t, i) = indent /\ At(t, i) # ""
    THEN LET e  == LineEnd(t, i)
             s1 == str \o lead \o trail \o SubSeq(t, i, e - 1)
         IN  IF At(t, e) = ""
             THEN [str |-> s1, lead |-> <<>>, trail |-> <<>>, pos |-> e]
             ELSE LET sk == SkipIndent(t, e + 1, indent, <<>>)
                  IN  BlockLines(t, sk.pos, indent, s1, <<NL>>, sk.breaks)
    ELSE [str |-> str, lead |-> lead, trail |-> trail, pos |-> i]

Max(a, b) == IF a > b THEN a ELSE b

\* a literal block scalar from its '|'; parent is the column of the enclosing
\* block collection, -1 at the root
ScanBlock(t, i, parent) ==
    LET chomp == IF At(t, i + 1) = "-" THEN "strip"
                 ELSE IF At(t, i + 1) = "+" THEN "keep" ELSE "clip"
        j  == SkipSpaces(t, IF chomp = "clip" THEN i + 1 ELSE i + 2)
        j1 == IF At(t, j) = NL THEN j + 1 ELSE j
        f  == FirstLineIndent(t, j1, 0, <<>>)
        indent == Max(f.max, parent + 1)
        b  == BlockLines(t, f.pos, indent, <<>>, <<>>, f.breaks)
        clipped == b.str \o b.lead
                   \o (IF At(t, b.pos) = "" /\ b.lead = <<>>
                          /\ Col(t, b.pos) >= Max(indent, 1)
                       THEN <<NL>> ELSE <<>>)
    IN  IF At(t, j) \notin {NL, ""} THEN Failed(<<>>)
        ELSE IF At(t, f.pos) = ""
        THEN Parsed(<<Scalar(IF chomp = "keep" THEN f.breaks ELSE <<>>,
                             "Literal")>>, f.pos)
        ELSE IF Col(t, f.pos) < indent /\ Col(t, f.pos) > parent
        THEN Failed(<<>>)
        ELSE Parsed(<<Scalar(CASE chomp = "strip" -> b.str
                               [] chomp = "clip" -> clipped
                               [] chomp = "keep" -> clipped \o b.trail,
                             "Literal")>>, b.pos)

IsDash(t, i) == At(t, i) = "-" /\ IsBlankZ(At(t, i + 1))

IsColon(t, i) == At(t, i) = ":" /\ IsBlankZ(At(t, i + 1))

RECURSIVE Node(_, _, _, _)
RECURSIVE SeqEntries(_, _, _, _, _)
RECURSIVE MapEntries(_, _, _, _)
RECURSIVE FlowItems(_, _, _)

\* a one-line scalar that may be a key: quoted or plain
KeyScalar(t, i, flow) ==
    IF At(t, i) = QUOTE
    THEN LET s == ScanSingle(t, i + 1, <<>>)
         IN  [ok |-> s.ok, ev |-> Scalar(s.v, "SingleQuoted"), pos |-> s.pos]
    ELSE IF At(t, i) \in Indicators
            /\ ~(At(t, i) \in {"-", "?", ":"} /\ ~IsBlankZ(At(t, i + 1)))
         THEN [ok |-> FALSE, ev |-> EmptyScalar, pos |-> i]
    ELSE LET s == ScanPlain(t, i, flow)
         IN  [ok |-> TRUE, ev |-> Scalar(s.v, "Plain"), pos |-> s.pos]

\* the items of a flow sequence after '[' or ',': i is past the blanks
FlowItems(t, i, evs) ==
    IF At(t, i) = "]" THEN Parsed(Append(evs, Ev("SequenceEnd")), i + 1)
    ELSE LET item ==
                 IF At(t, i) = "["
                 THEN FlowItems(t, SkipBlank(t, i + 1), <<Ev("SequenceStart")>>)
                 ELSE LET s == KeyScalar(t, i, TRUE)
                      IN  IF s.ok THEN Parsed(<<s.ev>>, s.pos) ELSE Failed(<<>>)
             k == SkipBlank(t, item.pos)
         IN  IF ~item.ok THEN Failed(evs \o item.evs)
             ELSE IF At(t, k) = ","
                  THEN FlowItems(t, SkipBlank(t, k + 1), evs \o item.evs)
             ELSE IF At(t, k) = "]"
                  THEN Parsed((evs \o item.evs) \o <<Ev("SequenceEnd")>>, k + 1)
             ELSE Failed(evs \o item.evs)

\* the entries of a block sequence whose '-' stand in column c; i is at a '-'.
\* An indentless sequence (the value of a key of the same column) ends at the
\* next key.
SeqEntries(t, i, c, indentless, evs) ==
    LET j == SkipBlank(t, i + 1)
        elem == IF At(t, j) = "" \/ Col(t, j) <= c
                THEN Parsed(<<EmptyScalar>>, j)
                ELSE Node(t, j, c, FALSE)
        k == SkipBlank(t, elem.pos)
    IN  IF ~elem.ok THEN Failed(evs \o elem.evs)
        ELSE IF At(t, k) = "" \/ Col(t, k) < c
             THEN Parsed((evs \o elem.evs) \o <<Ev("SequenceEnd")>>, k)
        ELSE IF Col(t, k) = c /\ IsDash(t, k)
             THEN SeqEntries(t, k, c, indentless, evs \o elem.evs)
        ELSE IF Col(t, k) = c /\ indentless
             THEN Parsed((evs \o elem.evs) \o <<Ev("SequenceEnd")>>, k)
        ELSE Failed(evs \o elem.evs)

\* the entries of a block mapping whose keys stand in column c; i is past
\* the ':' of a key whose event is already in evs
MapEntries(t, i, c, evs) ==
    LET s  == SkipSpaces(t, i)
        j  == SkipBlank(t, s)
        value ==
            IF At(t, s) \notin {NL, ""} THEN Node(t, s, c, TRUE)
            ELSE IF At(t, j) = "" \/ Col(t, j) < c THEN Parsed(<<EmptyScalar>>, j)
            ELSE IF Col(t, j) = c
                 THEN IF IsDash(t, j)
                      THEN SeqEntries(t, j, c, TRUE, <<Ev("SequenceStart")>>)
                      ELSE Parsed(<<EmptyScalar>>, j)
            ELSE Node(t, j, c, FALSE)
        k   == SkipBlank(t, value.pos)
        key == KeyScalar(t, k, FALSE)
        kc  == SkipSpaces(t, key.pos)
    IN  IF ~value.ok THEN Failed(evs \o value.evs)
        ELSE IF At(t, k) = "" \/ Col(t, k) < c
             THEN Parsed((evs \o value.evs) \o <<Ev("MappingEnd")>>, k)
        ELSE IF Col(t, k) = c /\ key.ok /\ IsColon(t, kc)
             THEN MapEntries(t, kc + 1, c, (evs \o value.evs) \o <<key.ev>>)
        ELSE Failed(evs \o value.evs)

\* the node whose first character is at i; parent is the column of the
\* enclosing block collection (-1 at the root); inl says that the node
\* follows the ':' of its key on the same line, where no block collection
\* may start
Node(t, i, parent, inl) ==
    LET c == At(t, i)
    IN  IF c = "" THEN Parsed(<<EmptyScalar>>, i)
        ELSE IF IsDash(t, i)
             THEN IF inl THEN Failed(<<>>)
                  ELSE SeqEntries(t, i, Col(t, i), FALSE, <<Ev("SequenceStart")>>)
        ELSE IF c = "["
             THEN FlowItems(t, SkipBlank(t, i + 1), <<Ev("SequenceStart")>>)
        ELSE IF c = "|" THEN ScanBlock(t, i, parent)
        ELSE LET s == KeyScalar(t, i, FALSE)
                 k == SkipSpaces(t, s.pos)
             IN  IF ~s.ok THEN Failed(<<>>)
                 ELSE IF IsColon(t, k)
                      THEN IF inl THEN Failed(<<>>)
                           ELSE MapEntries(t, k + 1, Col(t, i),
                                           <<Ev("MappingStart"), s.ev>>)
                 ELSE Parsed(<<s.ev>>, s.pos)

\* the scanner reads on while the scalar before it may still be a key: up
\* to the end of its line.  What it reads there fails only on a quoted scalar
\* that is not closed.
RECURSIVE RestOfLineScans(_, _)
RestOfLineScans(t, i) ==
    LET k == SkipSpaces(t, i)
    IN  IF At(t, k) \in {NL, ""} THEN TRUE
        ELSE IF At(t, k) = QUOTE
             THEN LET s == ScanSingle(t, k + 1, <<>>)
                  IN  s.ok /\ RestOfLineScans(t, s.pos)
        ELSE RestOfLineScans(t, PlainEnd(t, k + 1, FALSE))

\* every event of the stream for the text: Parser::new_from_str, then
\* next_token until it ends or fails
Events(t) ==
    LET i == SkipBlank(t, 1)
        n == Node(t, i, -1, FALSE)
        k == SkipBlank(t, n.pos)
        oneScalar == Len(n.evs) = 1 /\ n.evs[1].style \in {"Plain", "SingleQuoted"}
    IN  IF At(t, i) = "" THEN <<Ev("StreamStart"), Ev("StreamEnd")>>
        ELSE IF ~n.ok /\ n.evs = <<>> THEN <<Ev("StreamStart"), Ev("ScanError")>>
        ELSE IF ~n.ok
             THEN (<<Ev("StreamStart"), Ev("DocumentStart")>> \o n.evs)
                  \o <<Ev("ScanError")>>
        ELSE IF oneScalar /\ ~RestOfLineScans(t, n.pos)
             THEN <<Ev("StreamStart"), Ev("ScanError")>>
        ELSE (<<Ev("StreamStart"), Ev("DocumentStart")>> \o n.evs)
             \o (IF At(t, k) = "" THEN <<Ev("DocumentEnd"), Ev("StreamEnd")>>
                 ELSE <<Ev("DocumentEnd"), Ev("ScanError")>>)

-----------------------------------------------------------------------------
(* The decoder: src/src/de/mod.rs.  The parser is the event list and the    *)
(* position pos of the next event; a result is [ok, val, pos, err].         *)

\* Parser::peek: the next event, not consumed.  The last event of a stream
\* (StreamEnd, or the scan failure) is returned again by every later call.
peek(evs, pos) == IF pos <= Len(evs) THEN evs[pos] ELSE evs[Len(evs)]

\* the position after Parser::next_token
Advance(evs, pos) == IF pos < Len(evs) THEN pos + 1 ELSE pos

IsNull(v) == v = <<"n", "u", "l", "l">> \/ v = <<"~">>

Done(v, pos) == [ok |-> TRUE, val |-> v, pos |-> pos, err |-> ""]

Fail(err, pos) == [ok |-> FALSE, val |-> <<>>, pos |-> pos, err |-> err]

\* the error of a next_token that did not give the expected event
Unexpected(e, pos) ==
    IF e.e = "ScanError" THEN Fail("ScanError", pos)
    ELSE Fail("UnexpectedEventError", pos)

\* YamlDeserializer::from_str: the position after the leading StreamStart
\* and DocumentStart
YamlDeserializer_from_str(evs) ==
    IF peek(evs, 1).e = "StreamStart"
    THEN IF peek(evs, 2).e = "DocumentStart" THEN Advance(evs, 2)
         ELSE Advance(evs, 1)
    ELSE 1

\* a deserialize_number that takes a scalar of any style
deserialize_number_any_style(d, evs, pos) ==
    LET e == peek(evs, pos)
        p == IF d.k = "float" THEN ParseFloat(e.v) ELSE ParseInt(e.v, d.lo, d.hi)
    IN  IF e.e = "Scalar"
        THEN IF p.ok THEN Done(p.n, Advance(evs, pos))
             ELSE Fail("ParseNumberError", Advance(evs, pos))
        ELSE Unexpected(e, Advance(evs, pos))

\* a number decode that reads the scalar and leaves it in the parser
deserialize_number_peeking(d, evs, pos) ==
    LET e == peek(evs, pos)
        p == IF d.k = "float" THEN ParseFloat(e.v) ELSE ParseInt(e.v, d.lo, d.hi)
    IN  IF e.e = "Scalar" /\ e.style = "Plain"
        THEN IF p.ok THEN Done(p.n, pos)
             ELSE Fail("ParseNumberError", Advance(evs, pos))
        ELSE Unexpected(e, Advance(evs, pos))

\* the macro deserialize_number
deserialize_number(d, evs, pos) ==
    LET e == peek(evs, pos)
        p == IF d.k = "float" THEN ParseFloat(e.v) ELSE ParseInt(e.v, d.lo, d.hi)
    IN  IF e.e = "Scalar" /\ e.style = "Plain"
        THEN IF p.ok THEN Done(p.n, Advance(evs, pos))
             ELSE Fail("ParseNumberError", Advance(evs, pos))
        ELSE Unexpected(e, Advance(evs, pos))

\* a deserialize_bool that takes true and false in any style
deserialize_bool_any_style(evs, pos) ==
    LET e == peek(evs, pos)
    IN  IF e.e = "Scalar"
        THEN IF e.v = <<"t", "r", "u", "e">> THEN Done(TRUE, Advance(evs, pos))
             ELSE IF e.v = <<"f", "a", "l", "s", "e">>
                  THEN Done(FALSE, Advance(evs, pos))
             ELSE Fail("UnexpectedScalarValueError", Advance(evs, pos))
        ELSE Unexpected(e, Advance(evs, pos))

deserialize_bool(evs, pos) ==
    LET e == peek(evs, pos)
    IN  IF e.e = "Scalar" /\ e.style = "Plain"
        THEN IF e.v = <<"t", "r", "u", "e">> THEN Done(TRUE, Advance(evs, pos))
             ELSE IF e.v = <<"f", "a", "l", "s", "e">>
                  THEN Done(FALSE, Advance(evs, pos))
             ELSE Fail("UnexpectedScalarValueError", Advance(evs, pos))
        ELSE Unexpected(e, Advance(evs, pos))

\* a character that UTF-8 writes in two bytes (U+00E9)
EACUTE == "U+00E9"

\* str::len: the number of bytes of the text
RECURSIVE ByteLen(_)
ByteLen(s) ==
    IF s = <<>> THEN 0
    ELSE (IF Head(s) = EACUTE THEN 2 ELSE 1) + ByteLen(Tail(s))

deserialize_char(evs, pos) ==
    LET e == peek(evs, pos)
    IN  IF e.e = "Scalar" /\ e.style = "Plain"
        THEN IF ByteLen(e.v) # 1
             THEN Fail("UnexpectedScalarValueError", Advance(evs, pos))
             ELSE Done(e.v[1], Advance(evs, pos))
        ELSE Unexpected(e, Advance(evs, pos))

deserialize_string(evs, pos) ==
    LET e == peek(evs, pos)
    IN  IF e.e = "Scalar" THEN Done(e.v, Advance(evs, pos))
        ELSE Unexpected(e, Advance(evs, pos))

deserialize_unit(evs, pos) ==
    LET e == peek(evs, pos)
    IN  IF e.e = "Scalar"
        THEN IF IsNull(e.v) THEN Done(<<>>, Advance(evs, pos))
             ELSE Fail("UnexpectedScalarValueError", Advance(evs, pos))
        ELSE Unexpected(e, Advance(evs, pos))

\* VariantAccess::unit_variant
unit_variant(evs, pos) == deserialize_unit(evs, pos)

\* a node of the document tree (yaml_rust2's Yaml): t is the variant, v what
\* it holds: the number, the text, the elements, the <<key, value>> entries
Yaml(t, v) == [t |-> t, v |-> v]

\* Yaml::from_str, the scalar classifier of the document tree, on the texts
\* of the model (no 0x and no 0o prefix).  SpecialReals are the names
\* parse_f64 takes for the infinities and for not-a-number; no
\* str::parse::<f64> reads them
Yaml_from_str(s) ==
    LET SpecialReals == {<<".", "i", "n", "f">>, <<"-", ".", "i", "n", "f">>,
                         <<".", "n", "a", "n">>}
        Classify(plus, whole, real) ==
            IF plus.ok THEN Yaml("Integer", plus.n)
            ELSE IF IsNull(s) THEN Yaml("Null", <<>>)
            ELSE IF s = <<"t", "r", "u", "e">> THEN Yaml("Boolean", TRUE)
            ELSE IF s = <<"f", "a", "l", "s", "e">> THEN Yaml("Boolean", FALSE)
            ELSE IF whole.ok THEN Yaml("Integer", whole.n)
            ELSE IF real THEN Yaml("Real", s)
            ELSE Yaml("String", s)
        Parse(i64) ==
            Classify(IF s # <<>> /\ s[1] = "+"
                     THEN ParseInt(Tail(s), i64.lo, i64.hi)
                     ELSE [ok |-> FALSE, n |-> 0],
                     ParseInt(s, i64.lo, i64.hi),
                     s \in SpecialReals \/ ParseFloat(s).ok)
    IN  Parse(TypeDef("i64"))

RECURSIVE deserialize(_, _, _)
RECURSIVE deserialize_any(_, _, _)
RECURSIVE VisitSeq(_, _, _, _)
RECURSIVE VisitTuple(_, _, _, _, _)
RECURSIVE VisitStruct(_, _, _, _)
RECURSIVE VisitMap(_, _, _, _)
RECURSIVE IgnoreSeq(_, _)
RECURSIVE IgnoreMap(_, _)
RECURSIVE NodeSeq(_, _, _)
RECURSIVE NodeMap(_, _, _)

\* a deserialize_option that takes ~ alone for none
deserialize_option_tilde_only(d, evs, pos) ==
    LET e == peek(evs, pos)
        Some(inner) == IF inner.ok THEN Done(<<inner.val>>, inner.pos) ELSE inner
    IN  IF e.e = "Scalar"
        THEN IF e.v = <<"~">> THEN Done(<<>>, Advance(evs, pos))
             ELSE Some(deserialize(d.inner, evs, pos))
        ELSE Unexpected(e, pos)

\* an option decode that takes only a plain null or ~ for none
deserialize_option_plain_only(d, evs, pos) ==
    LET e == peek(evs, pos)
        Some(inner) == IF inner.ok THEN Done(<<inner.val>>, inner.pos) ELSE inner
    IN  IF e.e = "Scalar"
        THEN IF IsNull(e.v) /\ e.style = "Plain"
             THEN Done(<<>>, Advance(evs, pos))
             ELSE Some(deserialize(d.inner, evs, pos))
        ELSE Unexpected(e, pos)

deserialize_option(d, evs, pos) ==
    LET e == peek(evs, pos)
        Some(inner) == IF inner.ok THEN Done(<<inner.val>>, inner.pos) ELSE inner
    IN  IF e.e = "Scalar"
        THEN IF IsNull(e.v) THEN Done(<<>>, Advance(evs, pos))
             ELSE Some(deserialize(d.inner, evs, pos))
        ELSE Unexpected(e, pos)

\* SeqAccess::next_element_seed under the visitor of Vec<T>: elements until
\* the pull reports the end
VisitSeq(tn, evs, pos, acc) ==
    LET Element(r) ==
            IF r.ok THEN VisitSeq(tn, evs, r.pos, Append(acc, r.val)) ELSE r
    IN  IF peek(evs, pos).e = "SequenceEnd" THEN Done(acc, pos)
        ELSE Element(deserialize(tn, evs, pos))

\* the visitor of a tuple, a tuple struct or a tuple variant: one pull for
\* each declared component, and an end reported early is invalid_length
VisitTuple(types, i, evs, pos, acc) ==
    LET Element(r) ==
            IF r.ok THEN VisitTuple(types, i + 1, evs, r.pos, Append(acc, r.val))
            ELSE r
    IN  IF i > Len(types) THEN Done(acc, pos)
        ELSE IF peek(evs, pos).e = "SequenceEnd" THEN Fail("invalid_length", pos)
        ELSE Element(deserialize(types[i], evs, pos))

FieldIndex(fields, name) ==
    IF \E i \in 1..Len(fields) : fields[i] = name
    THEN CHOOSE i \in 1..Len(fields) : fields[i] = name
    ELSE 0

\* the fields of a struct that the mapping did not give: None for an
\* Option, missing_field for every other type
MissingAreOptions(d, slots) ==
    \A i \in 1..Len(slots) : slots[i] = <<>> => TypeDef(d.types[i]).k = "option"

FillMissing(slots) ==
    [i \in 1..Len(slots) |-> IF slots[i] = <<>> THEN <<>> ELSE slots[i][1]]

\* MapAccess under the derived visitor of a struct or struct variant: keys
\* through deserialize_identifier, the value of an undeclared key through
\* deserialize_ignored_any
VisitStruct(d, evs, pos, slots) ==
    LET Value(i, v) ==
            IF ~v.ok THEN v
            ELSE VisitStruct(d, evs, v.pos,
                     IF i = 0 THEN slots ELSE [slots EXCEPT ![i] = <<v.val>>])
        Field(key, i) ==
            IF ~key.ok THEN key
            ELSE IF i # 0 /\ slots[i] # <<>> THEN Fail("duplicate_field", key.pos)
            ELSE Value(i, IF i = 0 THEN deserialize_any("IgnoredAny", evs, key.pos)
                          ELSE deserialize(d.types[i], evs, key.pos))
        Key(key) == Field(key, FieldIndex(d.fields, key.val))
    IN  IF peek(evs, pos).e = "MappingEnd"
        THEN IF MissingAreOptions(d, slots) THEN Done(FillMissing(slots), pos)
             ELSE Fail("missing_field", pos)
        ELSE Key(deserialize_string(evs, pos))

\* byte order of the characters, as Ord for String compares them
CharCode(c) ==
    CASE c = NL -> 10 [] c = SP -> 32 [] c = QUOTE -> 39 [] c = ":" -> 58
      [] c = BSLASH -> 92 [] IsDigit(c) -> 48 + DigitVal(c)
      [] c = "a" -> 97 [] c = "b" -> 98 [] OTHER -> 120

RECURSIVE StrLess(_, _)
StrLess(a, b) ==
    IF b = <<>> THEN FALSE
    ELSE IF a = <<>> THEN TRUE
    ELSE IF Head(a) = Head(b) THEN StrLess(Tail(a), Tail(b))
    ELSE CharCode(Head(a)) < CharCode(Head(b))

\* BTreeMap::insert on the entries in key order
RECURSIVE MapInsert(_, _, _)
MapInsert(es, k, v) ==
    IF es = <<>> THEN <<<<k, v>>>>
    ELSE IF Head(es)[1] = k THEN <<<<k, v>>>> \o Tail(es)
    ELSE IF StrLess(k, Head(es)[1]) THEN <<<<k, v>>>> \o es
    ELSE <<Head(es)>> \o MapInsert(Tail(es), k, v)

\* MapAccess under the visitor of a map: entries until the key pull reports
\* the end
VisitMap(d, evs, pos, acc) ==
    LET Value(key, v) ==
            IF ~v.ok THEN v
            ELSE VisitMap(d, evs, v.pos, MapInsert(acc, key.val, v.val))
        Key(key) ==
            IF ~key.ok THEN key
            ELSE Value(key, deserialize(d.value, evs, key.pos))
    IN  IF peek(evs, pos).e = "MappingEnd" THEN Done(acc, pos)
        ELSE Key(deserialize(d.key, evs, pos))

\* an end of a sequence that takes whatever event comes next
ExpectSequenceEnd_open(r, evs) ==
    IF ~r.ok THEN r ELSE Done(r.val, Advance(evs, r.pos))

\* the end of a sequence: next_token must give SequenceEnd
ExpectSequenceEnd(r, evs) ==
    IF ~r.ok THEN r
    ELSE IF peek(evs, r.pos).e = "SequenceEnd" THEN Done(r.val, Advance(evs, r.pos))
    ELSE Fail("Expected SequenceEnd", Advance(evs, r.pos))

\* the end of a mapping: next_token must give MappingEnd
ExpectMappingEnd(r, evs) ==
    IF ~r.ok THEN r
    ELSE IF peek(evs, r.pos).e = "MappingEnd" THEN Done(r.val, Advance(evs, r.pos))
    ELSE Unexpected(peek(evs, r.pos), Advance(evs, r.pos))

\* deserialize_seq under the visitor of a Vec (elem) or of a tuple (types)
deserialize_seq(d, evs, pos) ==
    LET e == peek(evs, pos)
        p == Advance(evs, pos)
    IN  IF e.e = "SequenceStart"
        THEN ExpectSequenceEnd(
                 IF d.k = "seq" THEN VisitSeq(d.elem, evs, p, <<>>)
                 ELSE VisitTuple(d.types, 1, evs, p, <<>>), evs)
        ELSE Unexpected(e, p)

\* deserialize_map under the visitor of a map or of a struct
deserialize_map(d, evs, pos) ==
    LET e == peek(evs, pos)
        p == Advance(evs, pos)
    IN  IF e.e = "MappingStart"
        THEN ExpectMappingEnd(
                 IF d.k = "map" THEN VisitMap(d, evs, p, <<>>)
                 ELSE VisitStruct(d, evs, p, [i \in 1..Len(d.fields) |-> <<>>]),
                 evs)
        ELSE Unexpected(e, p)

VariantIndex(d, name) ==
    IF \E i \in 1..Len(d.variants) : d.variants[i].name = name
    THEN CHOOSE i \in 1..Len(d.variants) : d.variants[i].name = name
    ELSE 0

\* EnumAccess::variant_seed, then the VariantAccess call of the declared
\* kind of the variant
visit_enum(d, evs, pos) ==
    LET Newtype(n) == IF n.ok THEN Done(<<n.val>>, n.pos) ELSE n
        Named(v, r) == IF r.ok THEN Done(<<v.name, r.val>>, r.pos) ELSE r
        Content(v, p) ==
            Named(v, CASE v.kind = "unit" -> unit_variant(evs, p)
                       [] v.kind = "newtype" ->
                             Newtype(deserialize(v.types[1], evs, p))
                       [] v.kind = "tuple" ->
                             deserialize_seq([k |-> "tuple", types |-> v.types],
                                             evs, p)
                       [] v.kind = "struct" ->
                             deserialize_map([k |-> "struct", fields |-> v.fields,
                                              types |-> v.types], evs, p))
        Variant(key, i) ==
            IF ~key.ok THEN key
            ELSE IF i = 0 THEN Fail("unknown_variant", key.pos)
            ELSE Content(d.variants[i], key.pos)
        Key(key) == Variant(key, VariantIndex(d, key.val))
    IN  Key(deserialize_string(evs, pos))

\* a deserialize_enum that does not look at the event after the variant
deserialize_enum_open(d, evs, pos) ==
    LET e == peek(evs, pos)
        p == Advance(evs, pos)
        End(r) == IF ~r.ok THEN r ELSE Done(r.val, Advance(evs, r.pos))
    IN  IF e.e = "MappingStart" THEN End(visit_enum(d, evs, p))
        ELSE Unexpected(e, p)

deserialize_enum(d, evs, pos) ==
    LET e == peek(evs, pos)
        p == Advance(evs, pos)
        End(r) ==
            IF ~r.ok THEN r
            ELSE IF peek(evs, r.pos).e = "MappingEnd"
                 THEN Done(r.val, Advance(evs, r.pos))
            ELSE Fail("Expected MappingEnd", Advance(evs, r.pos))
    IN  IF e.e = "MappingStart" THEN End(visit_enum(d, evs, p))
        ELSE Unexpected(e, p)

\* IgnoredAny::visit_seq and visit_map: every element, every entry
IgnoreSeq(evs, pos) ==
    LET Element(r) == IF r.ok THEN IgnoreSeq(evs, r.pos) ELSE r
    IN  IF peek(evs, pos).e = "SequenceEnd" THEN Done(<<>>, pos)
        ELSE Element(deserialize_any("IgnoredAny", evs, pos))

IgnoreMap(evs, pos) ==
    LET Value(v) == IF ~v.ok THEN v ELSE IgnoreMap(evs, v.pos)
        Key(key) ==
            IF ~key.ok THEN key
            ELSE Value(deserialize_any("IgnoredAny", evs, key.pos))
    IN  IF peek(evs, pos).e = "MappingEnd" THEN Done(<<>>, pos)
        ELSE Key(deserialize_any("IgnoredAny", evs, pos))

\* an insert that puts the entry in front of the others
HashInsert_front(h, k, v) == <<<<k, v>>>> \o h

\* Hash::insert (a linked hash map): a new key goes to the end, a key that
\* is there gets the value and moves to the end
HashInsert(h, k, v) ==
    Append(SelectSeq(h, LAMBDA kv : kv[1].t # k.t \/ kv[1].v # k.v), <<k, v>>)

\* YamlNodeWrapperVisitor::visit_seq: the loop goes on while next_element
\* gives Ok(Some(..)) and stops at the end of the sequence and at an error
NodeSeq(evs, pos, acc) ==
    LET Element(r) ==
            IF r.ok THEN NodeSeq(evs, r.pos, Append(acc, r.val))
            ELSE Done(Yaml("Array", acc), r.pos)
    IN  IF peek(evs, pos).e = "SequenceEnd" THEN Done(Yaml("Array", acc), pos)
        ELSE Element(deserialize("YamlNodeWrapper", evs, pos))

\* YamlNodeWrapperVisitor::visit_map: the loop goes on while next_entry
\* gives Ok(Some(..)); next_entry is the key and then the value
NodeMap(evs, pos, acc) ==
    LET Value(key, v) ==
            IF ~v.ok THEN Done(Yaml("Hash", acc), v.pos)
            ELSE NodeMap(evs, v.pos, HashInsert(acc, key.val, v.val))
        Key(key) ==
            IF ~key.ok THEN Done(Yaml("Hash", acc), key.pos)
            ELSE Value(key, deserialize("YamlNodeWrapper", evs, key.pos))
    IN  IF peek(evs, pos).e = "MappingEnd" THEN Done(Yaml("Hash", acc), pos)
        ELSE Key(deserialize("YamlNodeWrapper", evs, pos))

\* deserialize_any on a Scalar with the text v, p being the position after
\* it: the tree node the classifier gives goes to the visitor, a real as the
\* float its text parses to.  IgnoredAny keeps nothing.
deserialize_any_scalar(vis, v, p) ==
    LET keep(n) == IF vis = "IgnoredAny" THEN <<>> ELSE n
        Real(parsed) ==
            IF parsed.ok THEN Done(keep(Yaml("Real", FloatToStr(parsed.n))), p)
            ELSE Fail("ParseNumberError", p)
        Classified(node) ==
            IF node.t = "Real" THEN Real(ParseFloat(v))
            ELSE Done(keep(node), p)
    IN  Classified(Yaml_from_str(v))

\* deserialize_any under the visitor vis: IgnoredAny, which keeps nothing,
\* or the visitor of YamlNodeWrapper
deserialize_any(vis, evs, pos) ==
    LET e == peek(evs, pos)
        p == Advance(evs, pos)
        SequenceEnd(r) ==
            IF ~r.ok THEN r
            ELSE IF peek(evs, r.pos).e = "SequenceEnd"
                 THEN Done(r.val, Advance(evs, r.pos))
            ELSE Fail("Expected SequenceEnd event", Advance(evs, r.pos))
    IN  CASE e.e = "Scalar" -> deserialize_any_scalar(vis, e.v, p)
          [] e.e = "SequenceStart" ->
                SequenceEnd(IF vis = "IgnoredAny" THEN IgnoreSeq(evs, p)
                            ELSE NodeSeq(evs, p, <<>>))
          [] e.e = "MappingStart" ->
                ExpectMappingEnd(IF vis = "IgnoredAny" THEN IgnoreMap(evs, p)
                                 ELSE NodeMap(evs, p, <<>>), evs)
          [] e.e = "ScanError" -> Fail("ScanError", p)
          [] OTHER -> Fail("Unexpected event", p)

\* <T as Deserialize>::deserialize over the Deserializer of YamlDeserializer
deserialize(tn, evs, pos) ==
    LET Typed(d) ==
            CASE d.k \in {"int", "float"} -> deserialize_number(d, evs, pos)
              [] d.k = "bool" -> deserialize_bool(evs, pos)
              [] d.k = "char" -> deserialize_char(evs, pos)
              [] d.k = "string" -> deserialize_string(evs, pos)
              [] d.k = "unit" -> deserialize_unit(evs, pos)
              [] d.k = "option" -> deserialize_option(d, evs, pos)
              [] d.k \in {"seq", "tuple"} -> deserialize_seq(d, evs, pos)
              [] d.k \in {"struct", "map"} -> deserialize_map(d, evs, pos)
              [] d.k = "enum" -> deserialize_enum(d, evs, pos)
              [] d.k = "node" -> deserialize_any("YamlNodeWrapper", evs, pos)
    IN  Typed(TypeDef(tn))

\* from_str over the events of the text
\* a from_str that wants the document and the stream to end after the value
from_events_to_the_end(tn, evs) ==
    LET Ended(r) ==
            IF r.ok /\ peek(evs, r.pos).e # "DocumentEnd"
            THEN Fail("TrailingInput", r.pos)
            ELSE IF r.ok /\ peek(evs, r.pos + 1).e # "StreamEnd"
            THEN Fail("TrailingInput", r.pos + 1)
            ELSE r
    IN  Ended(deserialize(tn, evs, YamlDeserializer_from_str(evs)))

from_events(tn, evs) == deserialize(tn, evs, YamlDeserializer_from_str(evs))

from_str(tn, t) == from_events(tn, Events(t))

-----------------------------------------------------------------------------
(* The values the caller draws *)

Alphabet == {"a", SP, ":", QUOTE, NL}

\* multi-line strings drawn inside containers
MultiLineSamples ==
    {<<"a", NL, "b">>, <<"a", NL, SP, "b">>, <<SP, "a", NL, "b">>, <<NL, "a">>}

ElemStrs == StrsUpTo({"a", SP}, MaxElemStrLen) \cup MultiLineSamples

IntsAt(depth) ==
    IF depth = 0 THEN {-41, 0, 7, 123} ELSE IF depth = 1 THEN {-41, 7} ELSE {7}

StrsAt(depth) ==
    IF depth = 0 THEN StrsUpTo(Alphabet, MaxStrLen)
    ELSE IF depth = 1 THEN ElemStrs
    ELSE {<<"a", SP, "b">>}

RECURSIVE Universe(_, _)
RECURSIVE Product(_, _)
RECURSIVE MapsOf(_, _, _)

\* the maps of at most n entries, as entries in key order
MapsOf(keys, vals, n) ==
    IF n = 0 THEN {<<>>}
    ELSE LET smaller == MapsOf(keys, vals, n - 1)
         IN  smaller \cup
             {MapInsert(m, k, v) :
                 m \in smaller,
                 k \in keys,
                 v \in vals}

Product(types, depth) ==
    IF types = <<>> THEN {<<>>}
    ELSE {<<h>> \o t : h \in Universe(Head(types), depth),
                       t \in Product(Tail(types), depth)}

\* the values of the type tn drawn at the nesting depth (0 at the root)
Universe(tn, depth) ==
    LET d == TypeDef(tn)
    IN  CASE d.k = "int" -> IntsAt(depth)
          [] d.k = "bool" -> BOOLEAN
          [] d.k = "string" -> StrsAt(depth)
          [] d.k = "unit" -> {<<>>}
          [] d.k = "option" ->
                {<<>>} \cup {<<v>> : v \in Universe(d.inner, depth)}
          [] d.k = "seq" ->
                StrsUpTo(Universe(d.elem, depth + 1),
                         IF depth = 0 THEN MaxSeqLen ELSE MaxInnerLen)
          [] d.k \in {"tuple", "struct"} -> Product(d.types, depth + 1)
          [] d.k = "map" ->
                MapsOf(StrsUpTo({"a", SP}, MaxElemStrLen),
                       Universe(d.value, depth + 1),
                       IF depth = 0 THEN MaxSeqLen ELSE MaxInnerLen)
          [] d.k = "bytes" -> {<<>>, <<7>>}
          [] d.k = "enum" ->
                UNION {
                    {<<d.variants[i].name, p>> :
                        p \in IF d.variants[i].kind = "unit" THEN {<<>>}
                              ELSE Product(d.variants[i].types, depth + 1)} :
                    i \in 1..Len(d.variants)}

\* the types of the values given to to_string
ValueTypes ==
    {"i32", "bool", "String", "()", "Vec<i32>", "Vec<String>", "Vec<Vec<i32>>",
     "Vec<TestStruct>", "Vec<TestNestedStruct>", "(i32, String, bool)",
     "(i32, Vec<i32>)", "TestEmptyTupleStruct", "TestStruct", "SubTestStruct",
     "TestNestedStruct", "EmptyStruct", "BTreeMap<String, i32>", "Option<i32>",
     "Option<String>", "Option<Vec<String>>", "StructWithOptions",
     "Vec<Option<i32>>", "TestEnum", "StructWithEnum", "Vec<TestEnum>",
     "StructWithMap", "Vec<EmptyStruct>", "Option<Option<i32>>"}

-----------------------------------------------------------------------------
(* The state machine: a caller that encodes a value and decodes the text,   *)
(* or that decodes the events of a document written by hand                 *)

NoResult == [ok |-> FALSE, val |-> <<>>, pos |-> 0, err |-> "none"]

\* the types given to to_string that hold a byte sequence
BytesTypes ==
    {"Bytes", "Vec<Bytes>", "Option<Bytes>", "StructWithBytes",
     "Vec<StructWithBytes>", "BTreeMap<String, Bytes>"}

\* to_string(value), from a new YamlSerializer
InitValue ==
    /\ origin = "value"
    /\ pc = "start"
    /\ \/ /\ ty \in ValueTypes \cup BytesTypes
          /\ val \in Universe(ty, 0)
       \/ /\ ty = "Option<String>"
          /\ val \in {<<<<"n", "u", "l", "l">>>>, <<<<"~">>>>,
                      <<<<"n", "u", "l">>>>, <<<<"~", "~">>>>}
       \/ /\ ty = "ExampleStruct"
          /\ val = <<-41, <<"H", "e", "l", "l", "o", SP, "w", "o", "r", "l", "d">>,
                     <<1, 2, 3>>>>
    /\ enc = NewSerializer
    /\ text = <<>>
    /\ events = <<>>
    /\ res = NoResult
    /\ frames = <<>>

\* serialize_str(value) on an encoder that is at some level of a document
InitStr ==
    /\ origin = "str"
    /\ pc = "start"
    /\ ty = "String"
    /\ val \in StrsUpTo(Alphabet, MaxStrLen)
    /\ \E l \in 0..MaxLevel :
          enc = [out |-> <<>>, level |-> l, err |-> "", low |-> l]
    /\ text = <<>>
    /\ events = <<>>
    /\ res = NoResult
    /\ frames = <<>>

\* YamlSerializer::write(value): the whole encode
Encode ==
    /\ pc = "start"
    /\ enc' = serialize(ty, val, enc)
    /\ text' = IF Good(enc') THEN enc'.out ELSE <<>>
    /\ pc' = "encoded"
    /\ UNCHANGED <<origin, ty, val, events, res, frames>>

\* Parser::new_from_str on the text to_string returned
Scan ==
    /\ pc = "encoded"
    /\ origin = "value" \/ (origin = "node" /\ enc.level = 0 /\ enc.low = 0)
    /\ Good(enc)
    /\ events' = Events(text)
    /\ pc' = "ready"
    /\ UNCHANGED <<origin, ty, val, text, enc, res, frames>>

\* from_str::<ty>: the deserializer is made, and the target type decodes
Decode ==
    /\ pc = "ready"
    /\ res' = from_events(ty, events)
    /\ pc' = "done"
    /\ UNCHANGED <<origin, ty, val, text, enc, events, frames>>

Styles == {"Plain", "SingleQuoted", "DoubleQuoted", "Literal", "Folded"}

ScalarTexts ==
    {<<"1", "2", "3">>, <<"-", "1">>, <<"0">>, <<"1", "2", ".", "5">>,
     <<"a">>, <<>>, <<"n", "u", "l", "l">>, <<"~">>, <<"t", "r", "u", "e">>}

\* the target types a document of one scalar is decoded as
ScalarTargets ==
    {"i8", "i16", "i32", "i64", "u8", "u16", "u32", "u64", "f64", "String",
     "Option<i32>", "Option<String>"}

Plain(s) == Scalar(s, "Plain")

Quoted(s) == Scalar(s, "SingleQuoted")

\* the events of a stream of one document with the given content
Document(body) ==
    (<<Ev("StreamStart"), Ev("DocumentStart")>> \o body)
    \o <<Ev("DocumentEnd"), Ev("StreamEnd")>>

SequenceOf(items) == (<<Ev("SequenceStart")>> \o items) \o <<Ev("SequenceEnd")>>

MappingOf(entries) == (<<Ev("MappingStart")>> \o entries) \o <<Ev("MappingEnd")>>

\* contents for an optional target over a sequence or a struct
ContainerBodies ==
    {SequenceOf(<<Quoted(<<"a">>), Quoted(<<"b">>)>>),
     SequenceOf(<<>>),
     MappingOf(<<Plain(Name_x), Quoted(<<"a">>)>>),
     <<Plain(<<"~">>)>>,
     <<Plain(<<"n", "u", "l", "l">>)>>}

\* sequences of optional integers, among them [1,~,3]
OptionItems == {Plain(<<"1">>), Plain(<<"3">>), Plain(<<"~">>),
                Plain(<<"n", "u", "l", "l">>)}

OptionSequences ==
    {SequenceOf(<<a, b, c>>) : a \in OptionItems, b \in OptionItems,
                                c \in OptionItems}

\* the payloads written after the key of an enum mapping
Payloads ==
    {<<Plain(<<"~">>)>>,
     <<Plain(<<"n", "u", "l", "l">>)>>,
     <<Plain(<<"5">>)>>,
     SequenceOf(<<>>),
     SequenceOf(<<Plain(<<"1", "2">>), Quoted(<<"a">>)>>),
     MappingOf(<<Plain(Name_x), Quoted(<<"a">>)>>),
     MappingOf(<<Plain(Name_x), Plain(<<"1">>),
                 Plain(Name_y), Plain(<<"t", "r", "u", "e">>)>>)}

VariantKeys ==
    {VariantA, VariantB, VariantC, VariantD, VariantE, <<"V">>}

\* documents given to an enum target: a mapping of one entry or of two, a
\* scalar, a sequence
EnumBodies ==
    {MappingOf((<<Scalar(k, st)>> \o p) \o more) :
        k \in VariantKeys, st \in {"Plain", "SingleQuoted"}, p \in Payloads,
        more \in {<<>>, <<Plain(VariantA), Plain(<<"~">>)>>}}
    \cup {MappingOf(<<>>), <<Plain(VariantA)>>, SequenceOf(<<Plain(VariantA)>>)}

\* the documents given to YamlNodeWrapper: one scalar of each class and
\* style, sequences of up to two nodes and [1,2,3], mappings of one entry and
\* of two, one of them with the same key twice; among the nodes an alias and
\* a real no float parse reads, and [[.inf, 1]]
NodeBodies ==
    LET NodeItems ==
            {<<Plain(<<"1">>)>>, <<Quoted(<<"a">>)>>, <<Plain(<<"~">>)>>,
             <<Plain(<<"1", "2", ".", "5">>)>>, <<Plain(<<".", "i", "n", "f">>)>>,
             <<Ev("Alias")>>, SequenceOf(<<Ev("Alias")>>)}
        NodeKeys == {Plain(Name_x), Plain(<<"1">>), Ev("Alias")}
    IN  {<<Scalar(s, st)>> :
            s \in ScalarTexts \cup {<<"f", "a", "l", "s", "e">>, <<"+", "5">>,
                                    <<"1", ".", "0">>, <<".", "i", "n", "f">>},
            st \in {"Plain", "SingleQuoted"}}
        \cup {SequenceOf(<<>>), MappingOf(<<>>), <<Ev("Alias")>>,
              SequenceOf(<<Plain(<<"1">>), Plain(<<"2">>), Plain(<<"3">>)>>),
              SequenceOf(<<Plain(<<"1">>), Ev("ScanError")>>),
              SequenceOf(SequenceOf(<<Plain(<<".", "i", "n", "f">>),
                                      Plain(<<"1">>)>>)),
              MappingOf(<<Plain(Name_x), Plain(<<"1">>),
                          Plain(Name_x), Quoted(<<"a">>)>>)}
        \cup {SequenceOf(a) : a \in NodeItems}
        \cup {SequenceOf(a \o b) : a \in NodeItems, b \in NodeItems}
        \cup {MappingOf(<<k>> \o v) : k \in NodeKeys, v \in NodeItems}
        \cup {MappingOf((<<Plain(Name_x)>> \o a) \o (<<Plain(Name_y)>> \o b)) :
                a \in NodeItems, b \in NodeItems}

\* the integer targets of deserialize_i8 .. deserialize_u64
IntTargets == {"i8", "i16", "i32", "i64", "u8", "u16", "u32", "u64"}

\* numbers at and next to the ends of the 8 bit and 16 bit ranges
WidthNumbers ==
    {-32769, -32768, -129, -128, -1, 0, 5, 127, 128, 255, 256, 32767, 32768,
     65535, 65536}

\* the texts given to an integer target: the numbers as Display writes
\* them, with a '+', with a leading zero, -0, and texts that are no integer
WidthTexts ==
    {IntToStr(n) : n \in WidthNumbers}
    \cup {<<"+">> \o IntToStr(n) : n \in {m \in WidthNumbers : m >= 0}}
    \cup {<<"0">> \o IntToStr(n) : n \in {m \in WidthNumbers : m >= 0}}
    \cup {<<"-", "0">>, <<>>, <<"a">>, <<"-">>, <<"+">>, <<"1", "a">>,
          <<"1", ".", "5">>, <<SP, "1">>, <<"1", SP>>, <<"-", "-", "1">>}

\* the tuples and tuple structs decoded from a sequence written by hand
TupleTargets ==
    {"(i32, i8, i64)", "(i32, String, bool)", "(i32, Vec<i32>)",
     "TestEmptyTupleStruct"}

\* a sequence of k elements for the tuple tn: the first k of a list of
\* elements that fit the components of tn, followed by two more
TupleBody(tn, k) ==
    LET items ==
            CASE tn = "(i32, i8, i64)" ->
                    <<<<Plain(<<"3", "2", "1">>)>>, <<Plain(<<"1", "2">>)>>,
                      <<Plain(<<"-", "4">>)>>, <<Plain(<<"5">>)>>,
                      <<Plain(<<"6">>)>>>>
              [] tn = "(i32, String, bool)" ->
                    <<<<Plain(<<"3", "2">>)>>, <<Quoted(<<"a", SP, "b">>)>>,
                      <<Plain(<<"t", "r", "u", "e">>)>>, <<Plain(<<"5">>)>>,
                      <<Plain(<<"6">>)>>>>
              [] tn = "(i32, Vec<i32>)" ->
                    <<<<Plain(<<"1">>)>>,
                      SequenceOf(<<Plain(<<"2">>), Plain(<<"3">>)>>),
                      SequenceOf(<<Plain(<<"4">>)>>), <<Plain(<<"5">>)>>>>
              [] tn = "TestEmptyTupleStruct" ->
                    <<<<Plain(<<"1">>)>>, SequenceOf(<<>>)>>
        RECURSIVE Take(_)
        Take(n) == IF n = 0 THEN <<>> ELSE Take(n - 1) \o items[n]
    IN  SequenceOf(Take(k))

InitEvents ==
    /\ origin = "events"
    /\ pc = "ready"
    /\ \/ /\ ty \in ScalarTargets
          /\ \E s \in ScalarTexts, st \in Styles :
                events = Document(<<Scalar(s, st)>>)
       \/ /\ ty \in IntTargets
          /\ \E s \in WidthTexts : events = Document(<<Plain(s)>>)
       \/ /\ ty \in {"Option<Vec<String>>", "Option<SubTestStruct>"}
          /\ \E b \in ContainerBodies : events = Document(b)
       \/ /\ ty = "Vec<Option<i32>>"
          /\ \E b \in OptionSequences : events = Document(b)
       \/ /\ ty = "TestEnum"
          /\ \E b \in EnumBodies : events = Document(b)
       \/ /\ ty = "bool"
          /\ \/ \E s \in ScalarTexts \cup {<<"f", "a", "l", "s", "e">>,
                                          <<"T", "r", "u", "e">>},
                   st \in Styles :
                    events = Document(<<Scalar(s, st)>>)
             \/ \E b \in {SequenceOf(<<>>), MappingOf(<<>>),
                          SequenceOf(<<Plain(<<"t", "r", "u", "e">>)>>),
                          <<Ev("Alias")>>, <<Ev("ScanError")>>} :
                    events = Document(b)
       \/ /\ ty = "Vec<i32>"
          /\ \E b \in {SequenceOf(<<>>), SequenceOf(<<Plain(<<"1">>)>>),
                       SequenceOf(<<Plain(<<"1">>), Plain(<<"2">>),
                                    Plain(<<"3">>)>>),
                       SequenceOf(<<Plain(<<"1">>), Plain(<<"a">>),
                                    Plain(<<"3">>)>>),
                       SequenceOf(<<Plain(<<"1">>)>> \o SequenceOf(<<>>)),
                       SequenceOf(<<Plain(<<"1">>), Ev("ScanError")>>),
                       MappingOf(<<>>), <<Plain(<<"1">>)>>} :
                events = Document(b)
       \/ /\ ty \in {"BTreeMap<String, i32>", "TestStruct"}
          /\ \E b \in {MappingOf(<<>>),
                       MappingOf(<<Plain(Name_x), Plain(<<"1">>)>>),
                       MappingOf(<<Plain(Name_x), Plain(<<"1">>),
                                   Plain(Name_y), Plain(<<"2">>)>>),
                       MappingOf(<<Plain(Name_y), Plain(<<"2">>),
                                   Plain(Name_x), Plain(<<"1">>)>>),
                       MappingOf(<<Plain(Name_x), Plain(<<"1">>),
                                   Plain(Name_x), Plain(<<"2">>)>>),
                       MappingOf(<<Plain(Name_x), Plain(<<"a">>),
                                   Plain(Name_y), Plain(<<"2">>)>>),
                       MappingOf(<<Plain(Name_x)>>),
                       MappingOf(<<Plain(Name_x), Plain(<<"1">>),
                                   Ev("ScanError")>>),
                       SequenceOf(<<>>), <<Plain(<<"1">>)>>} :
                events = Document(b)
       \/ /\ ty = "TestStruct"
          /\ \E v \in {<<Plain(<<"7">>)>>, <<Quoted(<<"a", SP, "b">>)>>,
                        <<Plain(<<"~">>)>>, <<Plain(<<"t", "r", "u", "e">>)>>,
                        <<Plain(<<"1", "2", ".", "5">>)>>,
                        <<Scalar(<<"a", NL, "b">>, "Literal")>>,
                        <<Plain(<<".", "i", "n", "f">>)>>,
                        SequenceOf(<<>>), MappingOf(<<>>),
                        SequenceOf(<<Plain(<<"1">>)>>
                                   \o SequenceOf(<<Plain(<<"2">>)>>)),
                        SequenceOf(MappingOf(<<Plain(Name_x), Plain(<<"1">>)>>)),
                        SequenceOf(<<Plain(<<"1">>),
                                     Plain(<<".", "i", "n", "f">>)>>),
                        MappingOf(<<Plain(<<"a">>)>>
                                  \o MappingOf(<<Plain(<<"b">>),
                                                 Plain(<<"1">>)>>)),
                        MappingOf(<<Plain(Name_x), Plain(<<"1">>),
                                    Plain(Name_x)>>
                                  \o SequenceOf(<<Plain(<<"2">>)>>)),
                        MappingOf(SequenceOf(<<Plain(<<"1">>)>>)
                                  \o <<Plain(<<"2">>)>>)},
                   at \in 0..2 :
                events = Document(MappingOf(
                    SubSeq(<<Plain(Name_x), Plain(<<"1">>),
                             Plain(Name_y), Quoted(<<"2">>)>>, 1, 2 * at)
                    \o (<<Plain(<<"z">>)>> \o v)
                    \o SubSeq(<<Plain(Name_x), Plain(<<"1">>),
                                Plain(Name_y), Quoted(<<"2">>)>>, 2 * at + 1, 4)))
       \/ /\ ty \in TupleTargets
          /\ \/ \E k \in 0..(Len(TypeDef(ty).types) + 2) :
                    events = Document(TupleBody(ty, k))
             \/ \E b \in {<<Plain(<<"1">>)>>, <<Plain(<<"~">>)>>, MappingOf(<<>>),
                          MappingOf(<<Plain(<<"1">>), Plain(<<"2">>)>>),
                          <<Ev("Alias")>>, <<Ev("ScanError")>>,
                          SequenceOf(<<Plain(<<"a">>)>>),
                          SequenceOf(<<Plain(<<"1">>), Plain(<<"a">>),
                                       Plain(<<"3">>)>>)} :
                    events = Document(b)
       \/ /\ ty = "char"
          /\ \/ \E s \in {<<"a">>, <<"~">>, <<SP>>, <<EACUTE>>, <<>>,
                            <<"a", "b">>, <<"a", EACUTE>>},
                   st \in Styles :
                    events = Document(<<Scalar(s, st)>>)
             \/ \E b \in {SequenceOf(<<>>), SequenceOf(<<Plain(<<"a">>)>>),
                          <<Ev("Alias")>>, <<Ev("ScanError")>>} :
                    events = Document(b)
       \/ /\ ty \in {"i32", "Vec<String>"}
          /\ \E tail \in {<<Ev("DocumentEnd"), Ev("StreamEnd")>>,
                           <<Ev("DocumentEnd"), Ev("DocumentStart"),
                             Plain(<<"2">>), Ev("DocumentEnd"),
                             Ev("StreamEnd")>>,
                           <<Ev("DocumentEnd"), Ev("DocumentStart"),
                             Ev("MappingStart"), Ev("ScanError")>>,
                           <<Ev("DocumentEnd"), Ev("ScanError")>>,
                           <<Ev("ScanError")>>,
                           <<Ev("Alias"), Ev("DocumentEnd"), Ev("StreamEnd")>>} :
                events = (<<Ev("StreamStart"), Ev("DocumentStart")>>
                          \o (IF ty = "i32" THEN <<Plain(<<"1">>)>>
                              ELSE SequenceOf(<<Quoted(<<"a">>),
                                                Quoted(<<"b">>)>>)))
                         \o tail
       \/ /\ ty \in {"String", "Vec<String>", "()"}
          /\ events \in {<<Ev("StreamStart"), Ev("ScanError")>>,
                         <<Ev("StreamStart"), Ev("StreamEnd")>>}
       \/ /\ ty = "YamlNodeWrapper"
          /\ \E b \in NodeBodies : events = Document(b)
       \/ /\ ty = "StructWithNode"
          /\ \E b \in NodeBodies :
                events = Document(MappingOf(
                    (<<Plain(<<"k", "i", "n", "d">>), Plain(<<"F", "o", "o">>),
                       Plain(<<"d", "a", "t", "a">>)>>) \o b))
    /\ val = <<>>
    /\ enc = NewSerializer
    /\ text = <<>>
    /\ res = NoResult
    /\ frames = <<>>

\* the types of the values serialized inside a document
NestedTypes ==
    {"i32", "bool", "()", "Vec<i32>", "Vec<String>", "Vec<Vec<i32>>",
     "TestEmptyTupleStruct", "(i32, Vec<i32>)", "TestStruct", "EmptyStruct",
     "TestNestedStruct", "BTreeMap<String, i32>", "Option<i32>", "TestEnum",
     "StructWithEnum", "Vec<TestEnum>"}

\* value.serialize(serializer) on an encoder that is at some level of a
\* document: the call a container makes for an element, a field, a payload
InitNested ==
    /\ origin = "nested"
    /\ pc = "start"
    /\ ty \in NestedTypes
    /\ val \in Universe(ty, 0)
    /\ \E l \in 0..MaxLevel :
          enc = [out |-> <<>>, level |-> l, err |-> "", low |-> l]
    /\ text = <<>>
    /\ events = <<>>
    /\ res = NoResult
    /\ frames = <<>>

\* the trees given to the encoder inside a YamlNodeWrapper, each with the
\* typed value (tn, v) that holds the same data, if there is one
NodeSamples ==
    LET I(n) == Yaml("Integer", n)
        S(t) == Yaml("String", t)
        A(items) == Yaml("Array", items)
        H(entries) == Yaml("Hash", entries)
        Typed(node, tn, v) == [node |-> node, tn |-> tn, v |-> v]
        Untyped(node) == [node |-> node, tn |-> "", v |-> <<>>]
    IN  <<Typed(Yaml("Null", <<>>), "()", <<>>),
          Typed(Yaml("Boolean", TRUE), "bool", TRUE),
          Typed(I(-41), "i64", -41),
          Typed(S(<<"a", SP, "b">>), "String", <<"a", SP, "b">>),
          Typed(S(<<"a", NL, "b">>), "String", <<"a", NL, "b">>),
          Typed(Yaml("Real", <<"1", "2", ".", "5">>), "f64", [m |-> 125, e |-> 1]),
          Typed(Yaml("Real", <<"-", "1", ".", "0">>), "f64", [m |-> -1, e |-> 0]),
          Typed(A(<<>>), "Vec<i32>", <<>>),
          Typed(A(<<I(1), I(2), I(3)>>), "Vec<i32>", <<1, 2, 3>>),
          Typed(A(<<I(1), S(<<"a">>), Yaml("Boolean", FALSE)>>),
                "(i32, String, bool)", <<1, <<"a">>, FALSE>>),
          Typed(A(<<A(<<I(7)>>), A(<<>>)>>), "Vec<Vec<i32>>", <<<<7>>, <<>>>>),
          Typed(H(<<>>), "BTreeMap<String, i32>", <<>>),
          Typed(H(<<<<S(<<SP>>), I(7)>>, <<S(<<"a">>), I(1)>>>>),
                "BTreeMap<String, i32>", <<<<<<SP>>, 7>>, <<<<"a">>, 1>>>>),
          Typed(H(<<<<S(Name_x), S(<<"a">>)>>, <<S(Name_y), I(7)>>>>),
                "StructWithText", <<<<"a">>, 7>>),
          Typed(H(<<<<S(Name_x), H(<<<<S(Name_x), S(<<"a">>)>>>>)>>,
                    <<S(Name_y), A(<<I(7)>>)>>>>),
                "TestNestedStruct", <<<<<<"a">>>>, <<7>>>>),
          Untyped(H(<<<<I(1), A(<<I(2)>>)>>>>)),
          Untyped(S(<<"1", "2", "3">>)),
          Untyped(S(<<"t", "r", "u", "e">>)),
          Untyped(S(<<"n", "u", "l", "l">>)),
          Untyped(S(<<"1", ".", "5">>)),
          Untyped(S(<<>>)),
          Untyped(A(<<I(1), S(<<"~">>), Yaml("Null", <<>>)>>)),
          Untyped(H(<<<<S(<<"1">>), Yaml("Boolean", TRUE)>>>>)),
          Untyped(Yaml("Real", <<"a">>)),
          Untyped(Yaml("Real", <<".", "i", "n", "f">>)),
          Untyped(Yaml("Alias", 1)),
          Untyped(Yaml("BadValue", <<>>)),
          Untyped(A(<<I(1), Yaml("Real", <<"a">>)>>)),
          Untyped(A(<<I(1), Yaml("Alias", 1)>>)),
          Untyped(A(<<Yaml("BadValue", <<>>), I(1)>>)),
          Untyped(H(<<<<S(Name_x), Yaml("Alias", 1)>>>>)),
          Untyped(H(<<<<S(Name_x), I(1)>>,
                      <<S(Name_y), Yaml("Real", <<"a">>)>>>>))>>

\* YamlNodeWrapper::new(tree).serialize(serializer), at the root of a
\* document and at the levels of a field or an element
InitNode ==
    /\ origin = "node"
    /\ pc = "start"
    /\ ty = "YamlNodeWrapper"
    /\ \E i \in 1..Len(NodeSamples) : val = NodeSamples[i].node
    /\ \E l \in 0..MaxLevel :
          enc = [out |-> <<>>, level |-> l, err |-> "", low |-> l]
    /\ text = <<>>
    /\ events = <<>>
    /\ res = NoResult
    /\ frames = <<>>

\* the calls one MapSerializer is given before the model stops following it
MaxCalls == 4

\* every call of process_key and process_value writes one newline
Calls(st) == Cardinality({i \in 1..Len(st.out) : st.out[i] = NL})

\* serialize_map(len) on an encoder that is at some level of a document: the
\* MapSerializer is returned to the Serialize implementation, nothing is
\* written; val is the argument of the last call
InitMap ==
    /\ origin = "map"
    /\ pc = "map"
    /\ ty = "bool"
    /\ val = <<>>
    /\ \E l \in 0..MaxLevel :
          enc = [out |-> <<>>, level |-> l, err |-> "", low |-> l]
    /\ text = <<>>
    /\ events = <<>>
    /\ res = NoResult
    /\ frames = <<>>

\* SerializeMap::serialize_key(key): process_key for a key of type bool, whose
\* serialize is serialize_bool and cannot fail
SerializeMap_serialize_key ==
    /\ pc = "map"
    /\ Calls(enc) < MaxCalls
    /\ \E key \in BOOLEAN :
          LET s1 == Write(enc, IF key THEN <<"t", "r", "u", "e">>
                               ELSE <<"f", "a", "l", "s", "e">>)
              s2 == incr_level(Write(s1, <<":", NL>>))
          IN  /\ val' = key
              /\ enc' = Write(s2, write_indent(s2.level))
    /\ pc' = IF Good(enc') THEN "map" ELSE "ended"
    /\ UNCHANGED <<origin, ty, text, events, res, frames>>

\* SerializeMap::serialize_value(value): process_value for a value of type
\* bool; serde asks for a key before it, the type of the method does not
SerializeMap_serialize_value ==
    /\ pc = "map"
    /\ Calls(enc) < MaxCalls
    /\ \E value \in BOOLEAN :
          LET s1 == Write(enc, IF value THEN <<"t", "r", "u", "e">>
                               ELSE <<"f", "a", "l", "s", "e">>)
              s2 == decr_level(s1)
              s3 == Write(s2, <<NL>>)
          IN  /\ val' = value
              /\ enc' = IF ~Good(s2) THEN s2
                        ELSE Write(s3, write_indent(s3.level))
    /\ pc' = IF Good(enc') THEN "map" ELSE "ended"
    /\ UNCHANGED <<origin, ty, text, events, res, frames>>

\* SerializeMap::end: process_end returns Ok(())
SerializeMap_end ==
    /\ pc = "map"
    /\ pc' = "ended"
    /\ text' = enc.out
    /\ UNCHANGED <<origin, ty, val, enc, events, res, frames>>

Init == InitValue \/ InitStr \/ InitEvents \/ InitNested \/ InitNode \/ InitMap

Next ==
    \/ Encode
    \/ Scan
    \/ Decode
    \/ SerializeMap_serialize_key
    \/ SerializeMap_serialize_value
    \/ SerializeMap_end

Spec == Init /\ [][Next]_vars

-----------------------------------------------------------------------------
(* The same decode, followed call by call.  frames holds the visitors that  *)
(* are running: a value that is to be decoded ("value", with the shape d    *)
(* of its type), the loop of a visitor over the pulls of its access         *)
(* adapter, and "end", the next_token that a deserialize_ method makes      *)
(* after its visitor returned.  res holds the position of the parser and    *)
(* the result of the call that returned last; no value is built.            *)

\* from_str: the deserializer is made, T::deserialize is about to be called
Begin ==
    /\ pc = "ready"
    /\ pc' = "pull"
    /\ frames' = <<[f |-> "value", d |-> TypeDef(ty)]>>
    /\ res' = Done(<<>>, YamlDeserializer_from_str(events))
    /\ UNCHANGED <<origin, ty, val, text, enc, events>>

\* an end test that takes the End event it has seen
Ok_None_consuming(evs, pos) == Done(<<>>, Advance(evs, pos))

\* next_element_seed and next_key_seed when the peeked event is the End of
\* the container: return Ok(None), the parser as it was
Ok_None(evs, pos) == Done(<<>>, pos)

\* one deserialize_ method is entered: a scalar is decoded and the call
\* returns, deserialize_option looks at the next event, a container takes
\* its Start event and hands the access adapter to the visitor
Visit ==
    /\ pc = "pull"
    /\ frames # <<>>
    /\ frames[Len(frames)].f = "value"
    /\ LET d    == frames[Len(frames)].d
           rest == SubSeq(frames, 1, Len(frames) - 1)
           e    == peek(events, res.pos)
           p    == Advance(events, res.pos)
           vis  == IF d.k = "ignored" THEN "IgnoredAny" ELSE "YamlNodeWrapper"
           Return(r) == <<rest, [r EXCEPT !.val = <<>>]>>
           Enter(kind, fr) ==
               IF e.e = kind THEN <<Append(rest, fr), Done(<<>>, p)>>
               ELSE Return(Unexpected(e, p))
           next ==
           CASE d.k \in {"int", "float"} ->
                   Return(deserialize_number(d, events, res.pos))
             [] d.k = "bool" -> Return(deserialize_bool(events, res.pos))
             [] d.k = "char" -> Return(deserialize_char(events, res.pos))
             [] d.k = "string" -> Return(deserialize_string(events, res.pos))
             [] d.k = "unit" -> Return(deserialize_unit(events, res.pos))
             [] d.k = "option" ->
                   IF e.e # "Scalar" THEN Return(Unexpected(e, res.pos))
                   ELSE IF IsNull(e.v) THEN Return(Done(<<>>, p))
                   ELSE <<Append(rest, [f |-> "value", d |-> TypeDef(d.inner)]),
                          res>>
             [] d.k = "seq" -> Enter("SequenceStart", [f |-> "seq", d |-> d])
             [] d.k = "tuple" ->
                   Enter("SequenceStart", [f |-> "tuple", d |-> d, i |-> 1])
             [] d.k = "map" ->
                   Enter("MappingStart", [f |-> "map", d |-> d, phase |-> "key"])
             [] d.k = "struct" ->
                   Enter("MappingStart", [f |-> "struct", d |-> d, seen |-> {}])
             [] d.k = "enum" -> Enter("MappingStart", [f |-> "enum", d |-> d])
             [] d.k \in {"node", "ignored"} ->
                   CASE e.e = "Scalar" ->
                           Return(deserialize_any_scalar(vis, e.v, p))
                     [] e.e = "SequenceStart" ->
                           Enter("SequenceStart", [f |-> "anyseq", d |-> d])
                     [] e.e = "MappingStart" ->
                           Enter("MappingStart",
                                 [f |-> "anymap", d |-> d, phase |-> "key"])
                     [] e.e = "ScanError" -> Return(Fail("ScanError", p))
                     [] OTHER -> Return(Fail("Unexpected event", p))
       IN  frames' = next[1] /\ res' = next[2]
    /\ UNCHANGED <<origin, pc, ty, val, text, enc, events>>

\* the visitor on top makes its next pull: next_element_seed,
\* next_key_seed, next_value_seed, or variant_seed and the call of the
\* variant's kind.  A pull that finds the End event consumes nothing and
\* reports the end; every other pull calls a deserialize_ method.
Pull ==
    /\ pc = "pull"
    /\ frames # <<>>
    /\ res.ok
    /\ frames[Len(frames)].f \notin {"value", "end"}
    /\ LET top  == frames[Len(frames)]
           d    == top.d
           rest == SubSeq(frames, 1, Len(frames) - 1)
           e    == peek(events, res.pos)
           Return(r) == <<rest, [r EXCEPT !.val = <<>>]>>
           End(kind) == <<Append(rest, [f |-> "end", kind |-> kind]),
                          Ok_None(events, res.pos)>>
           Call(fr, shape, pos) ==
               <<Append(Append(rest, fr), [f |-> "value", d |-> shape]),
                 Done(<<>>, pos)>>
           Field(key, i) ==
               IF i # 0 /\ i \in top.seen
               THEN Return(Fail("duplicate_field", key.pos))
               ELSE Call([top EXCEPT !.seen = @ \cup ({i} \ {0})],
                         IF i = 0 THEN [k |-> "ignored"]
                         ELSE TypeDef(d.types[i]), key.pos)
           Name(key) ==
               IF ~key.ok THEN Return(key)
               ELSE Field(key, FieldIndex(d.fields, key.val))
           Unit(u) ==
               IF ~u.ok THEN Return(u)
               ELSE <<Append(rest, [f |-> "end", kind |-> "enum"]),
                      Done(<<>>, u.pos)>>
           Content(v, pos) ==
               CASE v.kind = "unit" -> Unit(unit_variant(events, pos))
                 [] v.kind = "newtype" ->
                       Call([f |-> "end", kind |-> "enum"],
                            TypeDef(v.types[1]), pos)
                 [] v.kind = "tuple" ->
                       Call([f |-> "end", kind |-> "enum"],
                            [k |-> "tuple", types |-> v.types], pos)
                 [] v.kind = "struct" ->
                       Call([f |-> "end", kind |-> "enum"],
                            [k |-> "struct", fields |-> v.fields,
                             types |-> v.types], pos)
           Variant(key, i) ==
               IF ~key.ok THEN Return(key)
               ELSE IF i = 0 THEN Return(Fail("unknown_variant", key.pos))
               ELSE Content(d.variants[i], key.pos)
           VariantName(key) == Variant(key, VariantIndex(d, key.val))
           next ==
           CASE top.f = "seq" ->
                   IF e.e = "SequenceEnd" THEN End("seq")
                   ELSE Call(top, TypeDef(d.elem), res.pos)
             [] top.f = "tuple" ->
                   IF top.i > Len(d.types) THEN End("seq")
                   ELSE IF e.e = "SequenceEnd"
                        THEN Return(Fail("invalid_length", res.pos))
                   ELSE Call([top EXCEPT !.i = @ + 1], TypeDef(d.types[top.i]),
                             res.pos)
             [] top.f = "map" ->
                   IF top.phase = "value"
                   THEN Call([top EXCEPT !.phase = "key"], TypeDef(d.value),
                             res.pos)
                   ELSE IF e.e = "MappingEnd" THEN End("map")
                   ELSE Call([top EXCEPT !.phase = "value"], TypeDef(d.key),
                             res.pos)
             [] top.f = "struct" ->
                   IF e.e = "MappingEnd"
                   THEN IF \A i \in 1..Len(d.types) :
                              i \notin top.seen => TypeDef(d.types[i]).k = "option"
                        THEN End("map")
                        ELSE Return(Fail("missing_field", res.pos))
                   ELSE Name(deserialize_string(events, res.pos))
             [] top.f = "enum" ->
                   VariantName(deserialize_string(events, res.pos))
             [] top.f = "anyseq" ->
                   IF e.e = "SequenceEnd" THEN End("anyseq")
                   ELSE Call(top, d, res.pos)
             [] top.f = "anymap" ->
                   IF top.phase = "value"
                   THEN Call([top EXCEPT !.phase = "key"], d, res.pos)
                   ELSE IF e.e = "MappingEnd" THEN End("anymap")
                   ELSE Call([top EXCEPT !.phase = "value"], d, res.pos)
       IN  frames' = next[1] /\ res' = next[2]
    /\ UNCHANGED <<origin, pc, ty, val, text, enc, events>>

\* the next_token after the visitor returned: the End event of the
\* container, or the error of the deserialize_ method that was entered
Close ==
    /\ pc = "pull"
    /\ frames # <<>>
    /\ res.ok
    /\ frames[Len(frames)].f = "end"
    /\ frames' = SubSeq(frames, 1, Len(frames) - 1)
    /\ LET kind == frames[Len(frames)].kind
           e    == peek(events, res.pos)
           p    == Advance(events, res.pos)
       IN  res' = CASE kind = "seq" -> ExpectSequenceEnd(res, events)
                    [] kind \in {"map", "anymap"} -> ExpectMappingEnd(res, events)
                    [] kind = "enum" ->
                          IF e.e = "MappingEnd" THEN Done(<<>>, p)
                          ELSE Fail("Expected MappingEnd", p)
                    [] kind = "anyseq" ->
                          IF e.e = "SequenceEnd" THEN Done(<<>>, p)
                          ELSE Fail("Expected SequenceEnd event", p)
    /\ UNCHANGED <<origin, pc, ty, val, text, enc, events>>

\* a call returned an error to the visitor on top: the typed visitors and
\* IgnoredAny return it (the ? operator); the loops of
\* YamlNodeWrapperVisitor end as they do at the end of the container
Unwind ==
    /\ pc = "pull"
    /\ frames # <<>>
    /\ ~res.ok
    /\ LET top  == frames[Len(frames)]
           rest == SubSeq(frames, 1, Len(frames) - 1)
           caught == top.f \in {"anyseq", "anymap"} /\ top.d.k = "node"
       IN  /\ frames' = IF caught
                        THEN Append(rest, [f |-> "end", kind |-> top.f])
                        ELSE rest
           /\ res' = IF caught THEN Done(<<>>, res.pos) ELSE res
    /\ UNCHANGED <<origin, pc, ty, val, text, enc, events>>

\* T::deserialize returned to from_str
Finish ==
    /\ pc = "pull"
    /\ frames = <<>>
    /\ pc' = "done"
    /\ UNCHANGED <<origin, ty, val, text, enc, events, res, frames>>

NextPulls == Begin \/ Visit \/ Pull \/ Close \/ Unwind \/ Finish

\* the decode runs on the calling thread until it returns
SpecPulls == InitEvents /\ [][NextPulls]_vars /\ WF_vars(NextPulls)

-----------------------------------------------------------------------------
(* What the specification says of the program, claim by claim *)

RECURSIVE InTypedDomain(_, _)

\* a value of integers, booleans, single-line strings without a single quote,
\* sequences, tuples, structs of at least one field and non-empty maps
InTypedDomain(tn, v) ==
    LET d == TypeDef(tn)
    IN  CASE d.k \in {"int", "bool"} -> TRUE
          [] d.k = "string" -> ~Contains(v, QUOTE) /\ ~Contains(v, NL)
          [] d.k = "seq" -> \A i \in 1..Len(v) : InTypedDomain(d.elem, v[i])
          [] d.k = "tuple" ->
                \A i \in 1..Len(v) : InTypedDomain(d.types[i], v[i])
          [] d.k = "struct" ->
                /\ Len(d.fields) >= 1
                /\ \A i \in 1..Len(v) : InTypedDomain(d.types[i], v[i])
          [] d.k = "map" ->
                /\ Len(v) >= 1
                /\ \A i \in 1..Len(v) :
                      /\ InTypedDomain(d.key, v[i][1])
                      /\ InTypedDomain(d.value, v[i][2])
          [] OTHER -> FALSE

\* C1: a value built from integers, booleans, single-line strings without a
\* single quote, sequences, tuples, structs with at least one field and
\* non-empty string-keyed maps is encoded without error, and decoding the text
\* as the same type gives back an equal value
C1_TypedRoundTrip ==
    (origin = "value" /\ InTypedDomain(ty, val)) =>
        /\ pc = "encoded" => Good(enc)
        /\ pc = "done" => (res.ok /\ res.val = val)

\* C1 happens: a struct in a sequence in a struct has gone round
C1_Witness ==
    /\ origin = "value"
    /\ pc = "done"
    /\ ty = "Vec<TestNestedStruct>"
    /\ InTypedDomain(ty, val)
    /\ Len(val) >= 2
    /\ Len(val[1][2]) >= 1
    /\ res.ok
    /\ res.val = val

\* the position of the first event of the document's content
Start == YamlDeserializer_from_str(events)

First == peek(events, Start)

NullText(v) == v \in {<<"n", "u", "l", "l">>, <<"~">>}

\* C2: an optional target whose next event opens a sequence or a mapping reports
\* some, and the inner type is decoded from that same event: Option<sequence>
\* given a sequence is Some(sequence), Option<struct> given a mapping is
\* Some(struct), at top level and as the field of a struct
C2_OptionOverContainer ==
    /\ (pc = "done" /\ TypeDef(ty).k = "option"
          /\ First.e \in {"SequenceStart", "MappingStart"}) =>
            LET inner == deserialize(TypeDef(ty).inner, events, Start)
            IN  inner.ok => (res.ok /\ res.val = <<inner.val>>)
    /\ (pc = "done" /\ origin = "value" /\ ty = "StructWithOptions"
          /\ val[1] # <<>> /\ val[1][1] # <<>> /\ val[2] # <<>>) =>
            (res.ok /\ res.val = val)

\* C3: an optional target whose next event is a scalar of text null or ~
\* consumes that one event and is none; on any other plain scalar it is what the
\* inner type decodes from that same scalar, wrapped in some, and ends where the
\* inner decode ends; [1,~,3] as optional integers is Some(1), None, Some(3)
C3_OptionOverScalar ==
    /\ (pc = "done" /\ TypeDef(ty).k = "option" /\ First.e = "Scalar") =>
            LET inner == deserialize(TypeDef(ty).inner, events, Start)
            IN  IF NullText(First.v)
                THEN res.ok /\ res.val = <<>> /\ res.pos = Start + 1
                ELSE First.style = "Plain" =>
                        /\ res.ok = inner.ok
                        /\ res.pos = inner.pos
                        /\ inner.ok => res.val = <<inner.val>>
                        /\ ~inner.ok => res.err = inner.err
    /\ (pc = "done" /\ origin = "events" /\ ty = "Vec<Option<i32>>") =>
            /\ res.ok
            /\ Len(res.val) = 3
            /\ \A i \in 1..3 :
                  res.val[i] = (IF events[Start + i].v = <<"1">> THEN <<1>>
                                ELSE IF events[Start + i].v = <<"3">> THEN <<3>>
                                ELSE <<>>)

\* C3 happens: [1,~,3] is decoded, and so are a lone null and a lone number
C3_Witness ==
    /\ pc = "done"
    /\ origin = "events"
    /\ ty = "Vec<Option<i32>>"
    /\ events[Start + 1].v = <<"1">>
    /\ events[Start + 2].v = <<"~">>
    /\ events[Start + 3].v = <<"3">>
    /\ res.ok
    /\ res.val = <<<<1>>, <<>>, <<3>>>>

\* C4: a scalar that is not plain fails against every integer and float target,
\* whatever its text, and against a String target gives its text unchanged
C4_NumericStrictness ==
    (pc = "done" /\ First.e = "Scalar" /\ First.style # "Plain") =>
        /\ TypeDef(ty).k \in {"int", "float"} => ~res.ok
        /\ TypeDef(ty).k = "string" => (res.ok /\ res.val = First.v)

\* C4 happens: the double-quoted "123" has been refused as a u8
C4_Witness ==
    /\ pc = "done"
    /\ origin = "events"
    /\ ty = "u8"
    /\ First = Scalar(<<"1", "2", "3">>, "DoubleQuoted")
    /\ ~res.ok
    /\ res.err = "UnexpectedEventError"

RECURSIVE NodeEnd(_, _, _)
\* the position after the node that starts at pos (depth: containers open)
NodeEnd(evs, pos, depth) ==
    LET e == evs[pos].e
    IN  IF e \in {"SequenceStart", "MappingStart"}
        THEN NodeEnd(evs, pos + 1, depth + 1)
        ELSE IF e \in {"SequenceEnd", "MappingEnd"}
        THEN IF depth = 1 THEN pos + 1 ELSE NodeEnd(evs, pos + 1, depth - 1)
        ELSE IF depth = 0 THEN pos + 1 ELSE NodeEnd(evs, pos + 1, depth)

DeclaredVariants == {VariantA, VariantB, VariantC, VariantD, VariantE}

\* C5: an enum target decodes only a mapping of exactly one entry whose key
\* names a declared variant, and ends after the closing MappingEnd; a null or ~
\* payload gives the unit variant, a sequence the tuple variant, a mapping the
\* struct variant; a document that is no mapping, a key that names no variant
\* and a second entry all make the decode fail
C5_EnumWireShape ==
    (pc = "done" /\ origin = "events" /\ ty = "TestEnum") =>
        LET key     == events[Start + 1]
            payload == events[Start + 2]
            close   == NodeEnd(events, Start + 2, 0)
            single  == /\ First.e = "MappingStart"
                       /\ key.e = "Scalar"
                       /\ key.v \in DeclaredVariants
                       /\ events[close].e = "MappingEnd"
        IN  /\ res.ok => (single /\ res.pos = close + 1 /\ res.val[1] = key.v)
            /\ First.e # "MappingStart" => ~res.ok
            /\ (First.e = "MappingStart" /\ key.v \notin DeclaredVariants)
                  => ~res.ok
            /\ (First.e = "MappingStart" /\ key.e = "Scalar"
                  /\ events[close].e # "MappingEnd") => ~res.ok
            /\ (single /\ key.v = VariantA /\ payload.e = "Scalar"
                  /\ NullText(payload.v)) => (res.ok /\ res.val = <<VariantA, <<>>>>)
            /\ (single /\ key.v = VariantB /\ payload.e = "SequenceStart"
                  /\ close = Start + 4) => (res.ok /\ res.val = <<VariantB, <<>>>>)
            /\ (single /\ key.v = VariantC /\ payload.e = "SequenceStart"
                  /\ close = Start + 6)
                  => (res.ok /\ res.val = <<VariantC, <<12, <<"a">>>>>>)
            /\ (single /\ key.v = VariantE /\ payload.e = "MappingStart"
                  /\ close = Start + 8)
                  => (res.ok /\ res.val = <<VariantE, <<1, TRUE>>>>)

\* C5 happens: VariantE: {x: 1, y: true} has been decoded to the struct
\* variant, and the decoder stands after the MappingEnd of the enum
C5_Witness ==
    /\ pc = "done"
    /\ origin = "events"
    /\ ty = "TestEnum"
    /\ events[Start + 1].v = VariantE
    /\ res.ok
    /\ res.val = <<VariantE, <<1, TRUE>>>>
    /\ events[res.pos - 1].e = "MappingEnd"
    /\ events[res.pos].e = "DocumentEnd"

\* an enum value whose payload is made of values of the typed domain: a unit
\* variant, a tuple variant (empty or not), a newtype variant over a struct, a
\* struct variant of at least one field
EnumInDomain(v) ==
    LET variant == TypeDef("TestEnum").variants[VariantOf(TypeDef("TestEnum"), v[1])]
    IN  /\ variant.kind = "struct" => Len(variant.types) >= 1
        /\ variant.kind = "newtype" => TypeDef(variant.types[1]).k = "struct"
        /\ \A i \in 1..Len(v[2]) : InTypedDomain(variant.types[i], v[2][i])

\* the enum values of the value drawn, where its type holds any: the root, the
\* field of a struct, the elements of a sequence
EnumsOf(tn, v) ==
    CASE tn = "TestEnum" -> {v}
      [] tn = "StructWithEnum" -> {v[2]}
      [] tn = "Vec<TestEnum>" -> {v[i] : i \in 1..Len(v)}
      [] OTHER -> {}

\* C6: an enum value of the five shapes is encoded without error as a mapping
\* of one entry whose key is the variant name, and decoding the text gives the
\* value back, at top level, as the field of a struct and as the element of a
\* sequence
C6_EnumRoundTrip ==
    (origin = "value" /\ EnumsOf(ty, val) # {}
       /\ \A e \in EnumsOf(ty, val) : EnumInDomain(e)) =>
        /\ pc = "encoded" => Good(enc)
        /\ pc \in {"ready", "done"} /\ ty = "TestEnum" =>
              /\ First.e = "MappingStart"
              /\ events[Start + 1] = Scalar(val[1], "Plain")
              /\ events[NodeEnd(events, Start + 2, 0)].e = "MappingEnd"
              /\ events[NodeEnd(events, Start + 2, 0) + 1].e = "DocumentEnd"
        /\ pc = "done" => (res.ok /\ res.val = val)

\* C6 happens: a sequence holding a newtype variant over a struct and a unit
\* variant has gone round
C6_Witness ==
    /\ origin = "value"
    /\ pc = "done"
    /\ ty = "Vec<TestEnum>"
    /\ Len(val) = 2
    /\ val[1][1] = VariantD
    /\ val[2][1] = VariantA
    /\ res.ok
    /\ res.val = val

QuotesBefore(s, i) == Cardinality({j \in 1..(i - 1) : s[j] = QUOTE})

\* out is s between single quotes, a backslash put before every quote of s and
\* nothing else changed
QuotedForm(s, out) ==
    /\ Len(out) = Len(s) + QuotesBefore(s, Len(s) + 1) + 2
    /\ out[1] = QUOTE
    /\ out[Len(out)] = QUOTE
    /\ \A i \in 1..Len(s) :
          LET k == 1 + i + QuotesBefore(s, i)
          IN  IF s[i] = QUOTE THEN out[k] = BSLASH /\ out[k + 1] = QUOTE
              ELSE out[k] = s[i]

RECURSIVE BlockBody(_, _)
\* for each line: a newline, the indentation of level + 1 (level + 2 spaces),
\* the text of the line
BlockBody(ls, level) ==
    IF ls = <<>> THEN <<>>
    ELSE ((<<NL>> \o Spaces(level + 2)) \o Head(ls)) \o BlockBody(Tail(ls), level)

\* C7: serialize_str writes a string without a newline between single quotes
\* with \' for every ' and nothing else changed ('' for the empty string), and
\* a string with a newline as |- and then, for each line, a newline, the
\* indentation of level+1 and the text of the line
C7_StringEncodingRule ==
    (origin \in {"value", "str"} /\ ty = "String" /\ pc # "start") =>
        /\ Good(enc)
        /\ val = <<>> => enc.out = <<QUOTE, QUOTE>>
        /\ IF Contains(val, NL)
           THEN enc.out = <<"|", "-">> \o BlockBody(lines(val), enc.level)
           ELSE QuotedForm(val, enc.out)

\* C7 happens: a'b has been written at level 1 as 'a\'b'
C7_Witness ==
    /\ origin = "str"
    /\ pc = "encoded"
    /\ enc.level = 1
    /\ val = <<"a", QUOTE, "a">>
    /\ enc.out = <<QUOTE, "a", BSLASH, QUOTE, "a", QUOTE>>

\* C8: every single-line string, those with single quotes among them, comes
\* back equal from from_str::<String>(to_string(s))
C8_QuoteRoundTrip ==
    (origin = "value" /\ ty = "String" /\ ~Contains(val, NL) /\ pc = "done") =>
        (res.ok /\ res.val = val)

MultiLine(s) == Contains(s, NL) /\ s[Len(s)] # NL

\* the strings of the value drawn, where its type holds any: the root, the
\* field of a struct, the elements of a sequence
StringsOf(tn, v) ==
    CASE tn = "String" -> {v}
      [] tn = "SubTestStruct" -> {v[1]}
      [] tn = "TestStruct" -> {v[2]}
      [] tn = "Vec<String>" -> {v[i] : i \in 1..Len(v)}
      [] OTHER -> {}

\* C9: a string with a newline in it and none at its end is written as a |-
\* block that decodes to exactly that string, at top level, as the field of a
\* struct and as the element of a sequence
C9_MultiLineFidelity ==
    (origin = "value" /\ StringsOf(ty, val) # {}
       /\ \A s \in StringsOf(ty, val) : MultiLine(s)) =>
        /\ (pc # "start" /\ ty = "String") =>
              (Good(enc) /\ SubSeq(text, 1, 2) = <<"|", "-">>)
        /\ pc = "done" => (res.ok /\ res.val = val)

\* the string drawn without its last character
ButLast == SubSeq(val, 1, Len(val) - 1)

Brackets == <<"[", "]">>

\* C11: an empty sequence and an empty tuple struct are written as exactly [],
\* an empty tuple variant as exactly <variant>: [], and the level is what it
\* was; [] decodes as the empty sequence and the empty tuple struct, and
\* <variant>: [] as the empty tuple variant
C11_EmptyContainers ==
    [][/\ (pc = "start" /\ origin \in {"value", "nested"}
             /\ TypeDef(ty).k \in {"seq", "tuple"} /\ val = <<>>) =>
                /\ Good(enc')
                /\ enc'.out = Brackets
                /\ enc'.level = enc.level
       /\ (pc = "start" /\ origin \in {"value", "nested"}
             /\ ty = "TestEnum" /\ val = <<VariantB, <<>>>>) =>
                /\ Good(enc')
                /\ enc'.out = (VariantB \o <<":", SP>>) \o Brackets
                /\ enc'.level = enc.level
       /\ (pc' = "done" /\ origin = "value"
             /\ ty \in {"Vec<i32>", "Vec<String>", "Vec<Vec<i32>>",
                        "TestEmptyTupleStruct"}
             /\ text = Brackets) => (res'.ok /\ res'.val = <<>>)
       /\ (pc' = "done" /\ origin = "value" /\ ty = "TestEnum"
             /\ text = (VariantB \o <<":", SP>>) \o Brackets) =>
                (res'.ok /\ res'.val = <<VariantB, <<>>>>)
      ]_vars

\* C11 happens: the empty tuple variant has been written at level 0, read
\* back, and decoded to the empty tuple variant
C11_Witness ==
    /\ origin = "value"
    /\ pc = "done"
    /\ ty = "TestEnum"
    /\ val = <<VariantB, <<>>>>
    /\ text = (VariantB \o <<":", SP>>) \o Brackets
    /\ enc.level = 0
    /\ res.ok
    /\ res.val = val

\* the indentation of a level: nothing at level 0 or below, level + 1 spaces
\* above
IndentOf(level) == IF level <= 0 THEN <<>> ELSE Spaces(level + 1)

\* the text a value of the type writes on an encoder at the level
Rendering(tn, v, level) ==
    serialize(tn, v, [out |-> <<>>, level |-> level, err |-> "",
                      low |-> level]).out

\* the type of the i-th element of a sequence or tuple type
ElemType(tn, i) ==
    IF TypeDef(tn).k = "seq" THEN TypeDef(tn).elem ELSE TypeDef(tn).types[i]

RECURSIVE SeqLayout(_, _, _, _)
\* for each element from the i-th on: '- ' and a newline, the indentation of
\* level + 1, the element at level + 1, a newline, the indentation of level
SeqLayout(tn, vs, i, level) ==
    IF i > Len(vs) THEN <<>>
    ELSE ((((<<"-", SP, NL>> \o IndentOf(level + 1))
            \o Rendering(ElemType(tn, i), vs[i], level + 1))
           \o <<NL>>) \o IndentOf(level))
         \o SeqLayout(tn, vs, i + 1, level)

\* C12: a non-empty sequence encoded at level L is, element after element and
\* the last one too, '- ' and a newline, the indentation of level L+1, the
\* element as written at level L+1, a newline and the indentation of level L,
\* and nothing more when the sequence closes
C12_SequenceLayout ==
    [][(pc = "start" /\ origin \in {"value", "nested"}
          /\ TypeDef(ty).k \in {"seq", "tuple"} /\ val # <<>>
          /\ Good(enc')) =>
            /\ enc'.out = SeqLayout(ty, val, 1, enc.level)
            /\ enc'.level = enc.level
      ]_vars

\* C12 happens: [-41, 7] has been written at level 1
C12_Witness ==
    /\ origin = "nested"
    /\ pc = "encoded"
    /\ ty = "Vec<i32>"
    /\ val = <<-41, 7>>
    /\ enc.level = 1
    /\ enc.out = <<"-", SP, NL, SP, SP, SP, "-", "4", "1", NL, SP, SP,
                   "-", SP, NL, SP, SP, SP, "7", NL, SP, SP>>

\* the key and the value types of the i-th entry of a map or struct
EntryTypes(tn, i) ==
    IF TypeDef(tn).k = "map" THEN <<TypeDef(tn).key, TypeDef(tn).value>>
    ELSE <<"String", TypeDef(tn).types[i]>>

\* the key and the value of the i-th entry of a map or struct value
Entry(tn, v, i) ==
    IF TypeDef(tn).k = "map" THEN v[i] ELSE <<TypeDef(tn).fields[i], v[i]>>

RECURSIVE MapLayout(_, _, _, _)
\* for each entry from the i-th on: the key as the encoder writes it, ':' and
\* a newline, the indentation of level + 1, the value at level + 1, a newline,
\* the indentation of level
MapLayout(tn, v, i, level) ==
    IF i > Len(v) THEN <<>>
    ELSE (((((Rendering(EntryTypes(tn, i)[1], Entry(tn, v, i)[1], level)
              \o <<":", NL>>) \o IndentOf(level + 1))
            \o Rendering(EntryTypes(tn, i)[2], Entry(tn, v, i)[2], level + 1))
           \o <<NL>>) \o IndentOf(level))
         \o MapLayout(tn, v, i + 1, level)

\* the text of the struct {x: -41, y: "Hello world", z: [1, 2, 3]}
ExampleText ==
    <<QUOTE, "x", QUOTE, ":", NL, SP, SP, "-", "4", "1", NL, QUOTE, "y",
    QUOTE, ":", NL, SP, SP, QUOTE, "H", "e", "l", "l", "o", SP, "w", "o", "r",
    "l", "d", QUOTE, NL, QUOTE, "z", QUOTE, ":", NL, SP, SP, "-", SP, NL, SP,
    SP, SP, "1", NL, SP, SP, "-", SP, NL, SP, SP, SP, "2", NL, SP, SP, "-",
    SP, NL, SP, SP, SP, "3", NL, SP, SP, NL>>

\* C13: a map or struct encoded at level L is, entry after entry, the key as
\* the same encoder writes it (a string key or field name between single
\* quotes), ':' and a newline, the indentation of level L+1, the value as
\* written at level L+1, a newline and the indentation of level L; the struct
\* {x: -41, y: "Hello world", z: [1, 2, 3]} is written as the text of the
\* example
C13_MapLayout ==
    [][/\ (pc = "start" /\ origin \in {"value", "nested"}
             /\ TypeDef(ty).k \in {"struct", "map"} /\ Good(enc')) =>
                /\ enc'.out = MapLayout(ty, val, 1, enc.level)
                /\ enc'.level = enc.level
                /\ \A i \in 1..Len(val) :
                      LET key == Entry(ty, val, i)[1]
                      IN  (~Contains(key, NL) /\ ~Contains(key, QUOTE)) =>
                             Rendering("String", key, enc.level)
                                = (<<QUOTE>> \o key) \o <<QUOTE>>
       /\ (pc = "start" /\ origin = "value" /\ ty = "ExampleStruct") =>
                (Good(enc') /\ enc'.out = ExampleText)
      ]_vars

\* C13 happens: the struct of the example has been written
C13_Witness ==
    /\ origin = "value"
    /\ pc = "encoded"
    /\ ty = "ExampleStruct"
    /\ val[1] = -41
    /\ val[3] = <<1, 2, 3>>
    /\ text = ExampleText

RECURSIVE FieldsLayout(_, _, _, _, _)
\* the elements of a tuple variant (fields = <<>>) or the fields of a struct
\* variant, from the i-th on, as a sequence or a map writes them at the level
FieldsLayout(fields, types, vs, i, level) ==
    IF i > Len(vs) THEN <<>>
    ELSE (((((IF fields = <<>> THEN <<"-", SP, NL>>
              ELSE ((<<QUOTE>> \o fields[i]) \o <<QUOTE>>) \o <<":", NL>>)
             \o IndentOf(level + 1))
            \o Rendering(types[i], vs[i], level + 1))
           \o <<NL>>) \o IndentOf(level))
         \o FieldsLayout(fields, types, vs, i + 1, level)

\* C14: a unit variant is written as <variant>: ~; a newtype variant, a
\* non-empty tuple variant and a struct variant as <variant>: and a newline,
\* the indentation of level L+1 and the payload (the inner value, the sequence,
\* the map) as written at level L+1; the level is L again when the variant is
\* complete
C14_VariantLayout ==
    [][(pc = "start" /\ origin \in {"value", "nested"} /\ ty = "TestEnum") =>
            LET v    == TypeDef(ty).variants[VariantOf(TypeDef(ty), val[1])]
                L    == enc.level
                open == (v.name \o <<":", NL>>) \o IndentOf(L + 1)
            IN  /\ Good(enc')
                /\ enc'.level = L
                /\ v.kind = "unit" => enc'.out = v.name \o <<":", SP, "~">>
                /\ v.kind = "newtype" =>
                      enc'.out = open \o Rendering(v.types[1], val[2][1], L + 1)
                /\ (v.kind \in {"tuple", "struct"} /\ val[2] # <<>>) =>
                      enc'.out = open \o FieldsLayout(v.fields, v.types,
                                                      val[2], 1, L + 1)
      ]_vars

\* C14 happens: VariantE { x: 7, y: true } has been written at level 0
C14_Witness ==
    /\ origin = "value"
    /\ pc = "encoded"
    /\ ty = "TestEnum"
    /\ val = <<VariantE, <<7, TRUE>>>>
    /\ enc.level = 0
    /\ text = VariantE \o <<":", NL, SP, SP, QUOTE, "x", QUOTE, ":", NL,
                            SP, SP, SP, "7", NL, SP, SP, QUOTE, "y", QUOTE,
                            ":", NL, SP, SP, SP, "t", "r", "u", "e", NL,
                            SP, SP>>

\* C15: through a successful encode the level is never negative; every
\* complete value, whether it is written as an element, a field, a map value
\* or a payload at some level of a document, leaves the level what it was when
\* the value started and never takes it lower meanwhile; the level is 0 when
\* to_string returns
C15_IndentationBalance ==
    [][(pc = "start" /\ Good(enc')) =>
            /\ enc'.level = enc.level
            /\ enc'.low = enc.level
            /\ enc'.low >= 0
            /\ origin = "value" => enc'.level = 0
      ]_vars

\* C15 happens: a sequence of enum values that holds a tuple variant and an
\* empty tuple variant has been written from level 2, and the level is 2 again
C15_Witness ==
    /\ origin = "nested"
    /\ pc = "encoded"
    /\ ty = "Vec<TestEnum>"
    /\ Len(val) = 2
    /\ val[1][1] = VariantC
    /\ val[2][1] = VariantB
    /\ Good(enc)
    /\ enc.level = 2
    /\ enc.low = 2


\* an event at which the decode of a node fails: an alias, a scan error, a
\* scalar classified as a real that no float parse reads
Broken(e) ==
    \/ e.e \in {"Alias", "ScanError"}
    \/ /\ e.e = "Scalar"
       /\ Yaml_from_str(e.v).t = "Real"
       /\ ~ParseFloat(e.v).ok

NodeTargets == {"YamlNodeWrapper", "StructWithNode"}

\* C16: decode errors are fatal: when the decode of a node nested in the
\* document fails (an alias, a scan error, a number that does not parse),
\* from_str returns an error, never an Array or a Hash without that node
C16_DecodeErrorsFatal ==
    (/\ pc = "done"
     /\ origin = "events"
     /\ ty \in NodeTargets
     /\ \E i \in 1..Len(events) : Broken(events[i]))
        => ~res.ok

\* the value v of the type tn holds a byte sequence at some depth
RECURSIVE HasBytes(_, _)
HasBytes(tn, v) ==
    LET d == TypeDef(tn)
    IN  CASE d.k = "bytes" -> TRUE
          [] d.k = "option" -> v # <<>> /\ HasBytes(d.inner, v[1])
          [] d.k = "seq" -> \E i \in 1..Len(v) : HasBytes(d.elem, v[i])
          [] d.k \in {"tuple", "struct"} ->
                \E i \in 1..Len(v) : HasBytes(d.types[i], v[i])
          [] d.k = "map" -> \E i \in 1..Len(v) : HasBytes(d.value, v[i][2])
          [] OTHER -> FALSE

\* C17: to_string of a value that holds a byte sequence at any depth returns
\* UnsupportedSerializationError and no text, whatever was written before the
\* bytes were reached
C17_BytesUnsupported ==
    (/\ pc = "encoded"
     /\ origin = "value"
     /\ ty \in BytesTypes
     /\ HasBytes(ty, val))
        => /\ enc.err = "UnsupportedSerializationError"
           /\ text = <<>>
           /\ to_string(ty, val) =
                [ok |-> FALSE, text |-> <<>>,
                 err |-> "UnsupportedSerializationError",
                 level |-> to_string(ty, val).level]

\* a struct whose integer field was written before its bytes field failed
C17_Witness ==
    /\ pc = "encoded"
    /\ origin = "value"
    /\ ty = "Vec<StructWithBytes>"
    /\ Len(val) = 2
    /\ enc.out # <<>>
    /\ enc.err = "UnsupportedSerializationError"
    /\ text = <<>>

\* the class of a scalar by its text: null, boolean, decimal integer, real,
\* and string for the rest
ClassOf(s) ==
    LET body == IF s # <<>> /\ s[1] \in {"+", "-"} THEN Tail(s) ELSE s
        dots == {i \in 1..Len(body) : body[i] = "."}
        rest == SelectSeq(body, LAMBDA ch : ch # ".")
    IN  IF s = <<"~">> \/ s = <<"n", "u", "l", "l">> THEN Yaml("Null", <<>>)
        ELSE IF s = <<"t", "r", "u", "e">> THEN Yaml("Boolean", TRUE)
        ELSE IF s = <<"f", "a", "l", "s", "e">> THEN Yaml("Boolean", FALSE)
        ELSE IF body # <<>> /\ AllDigits(body)
             THEN Yaml("Integer", IF s[1] = "-" THEN 0 - DigitsValue(body, 0)
                                  ELSE DigitsValue(body, 0))
        ELSE IF Cardinality(dots) = 1 /\ rest # <<>> /\ AllDigits(rest)
             THEN Yaml("Real", s)
        ELSE Yaml("String", s)

\* the tree a well-formed run of events stands for, read from the position
\* pos: the node and the position after it
RECURSIVE TreeAt(_, _)
RECURSIVE ItemsAt(_, _, _)
RECURSIVE EntriesAt(_, _, _)
TreeAt(evs, pos) ==
    CASE evs[pos].e = "SequenceStart" -> ItemsAt(evs, pos + 1, <<>>)
      [] evs[pos].e = "MappingStart" -> EntriesAt(evs, pos + 1, <<>>)
      [] OTHER -> [val |-> ClassOf(evs[pos].v), pos |-> pos + 1]

ItemsAt(evs, pos, acc) ==
    IF evs[pos].e = "SequenceEnd"
    THEN [val |-> Yaml("Array", acc), pos |-> pos + 1]
    ELSE LET item == TreeAt(evs, pos)
         IN  ItemsAt(evs, item.pos, Append(acc, item.val))

EntriesAt(evs, pos, acc) ==
    IF evs[pos].e = "MappingEnd"
    THEN [val |-> Yaml("Hash", acc), pos |-> pos + 1]
    ELSE LET key == TreeAt(evs, pos)
             v   == TreeAt(evs, key.pos)
         IN  EntriesAt(evs, v.pos, Append(acc, <<key.val, v.val>>))

\* the decoded node n is the tree t: the same variants in the same order, the
\* same integers, booleans and strings, and for a real the same number
RECURSIVE Agrees(_, _)
Agrees(n, t) ==
    /\ n.t = t.t
    /\ CASE n.t = "Array" ->
                /\ Len(n.v) = Len(t.v)
                /\ \A i \in 1..Len(n.v) : Agrees(n.v[i], t.v[i])
         [] n.t = "Hash" ->
                /\ Len(n.v) = Len(t.v)
                /\ \A i \in 1..Len(n.v) :
                      Agrees(n.v[i][1], t.v[i][1]) /\ Agrees(n.v[i][2], t.v[i][2])
         [] n.t = "Real" ->
                IF ParseFloat(n.v).ok /\ ParseFloat(t.v).ok
                THEN ParseFloat(n.v).n = ParseFloat(t.v).n
                ELSE n.v = t.v
         [] OTHER -> n.v = t.v

\* no two entries of the mapping t have the same key
DistinctKeys(t) ==
    t.t = "Hash" =>
        \A i, j \in 1..Len(t.v) : Agrees(t.v[i][1], t.v[j][1]) => i = j

\* where the node of the document starts: the body itself, or the value of
\* the field data
NodeStart == IF ty = "YamlNodeWrapper" THEN 3 ELSE 7

\* C18: decoding into YamlNodeWrapper classifies each scalar by its text
\* alone, whatever its style (null or ~ Null, true or false Boolean, a
\* decimal integer Integer, a real Real, the rest String), gives an Array of
\* the decoded elements in order for a sequence and a Hash of the decoded
\* entries in order for a mapping
C18_DynamicNodeDecode ==
    (/\ pc = "done"
     /\ origin = "events"
     /\ ty \in NodeTargets
     /\ \A i \in 1..Len(events) : ~Broken(events[i])
     /\ DistinctKeys(TreeAt(events, NodeStart).val))
        => /\ res.ok
           /\ Agrees(IF ty = "YamlNodeWrapper" THEN res.val ELSE res.val[2],
                     TreeAt(events, NodeStart).val)

\* the field data with the value [1,2,3] became Array[Integer 1, Integer 2,
\* Integer 3]
C18_Witness ==
    /\ pc = "done"
    /\ ty = "StructWithNode"
    /\ res.ok
    /\ res.val[2].t = "Array"
    /\ Len(res.val[2].v) = 3
    /\ \A i \in 1..3 : res.val[2].v[i] = Yaml("Integer", i)

\* the tree holds a node the encoder has no case for, or a real whose text
\* no float parse reads
RECURSIVE HasNode(_, _)
HasNode(n, bad) ==
    CASE n.t = "Array" -> \E i \in 1..Len(n.v) : HasNode(n.v[i], bad)
      [] n.t = "Hash" ->
            \E i \in 1..Len(n.v) :
                HasNode(n.v[i][1], bad) \/ HasNode(n.v[i][2], bad)
      [] n.t = "Real" -> bad = "Real" /\ ~ParseFloat(n.v).ok
      [] OTHER -> n.t \in {"Alias", "BadValue"} /\ bad = "Unrepresentable"

\* C19: the encode of a YamlNodeWrapper writes every Null, Boolean, Integer,
\* String, parsed Real, Array element and Hash entry as the ordinary encode
\* of the typed value with the same data writes them, in tree order; a Real
\* whose text is no 64-bit float fails with the unsupported error, and an
\* Alias or a BadValue aborts the encode: none is passed over
C19_DynamicNodeEncode ==
    [][(pc = "start" /\ origin = "node") =>
        \A i \in 1..Len(NodeSamples) :
            Agrees(val, NodeSamples[i].node) =>
              LET sample == NodeSamples[i]
              IN  /\ sample.tn # "" =>
                        /\ Good(enc')
                        /\ enc'.out = Rendering(sample.tn, sample.v, enc.level)
                  /\ Good(enc') =>
                        ~HasNode(val, "Real") /\ ~HasNode(val, "Unrepresentable")
                  /\ (HasNode(val, "Real") /\ ~HasNode(val, "Unrepresentable"))
                        => enc'.err = "UnsupportedSerializationError"
                  /\ (HasNode(val, "Unrepresentable") /\ ~HasNode(val, "Real"))
                        => enc'.err = "panic"
      ]_vars

\* a tree of a Hash with a nested Hash and an Array has been written at a
\* level of a document
C19_Witness ==
    /\ pc = "encoded"
    /\ origin = "node"
    /\ val.t = "Hash"
    /\ Len(val.v) = 2
    /\ val.v[1][2].t = "Hash"
    /\ val.v[2][2].t = "Array"
    /\ Good(enc)
    /\ enc.level = 1
    /\ enc.out # <<>>


\* the first event of the document and the texts of the two booleans
BoolEvent == events[3]

BoolTexts == {<<"t", "r", "u", "e">>, <<"f", "a", "l", "s", "e">>}

\* C20 as stated: deserialize_bool yields true or false only for a plain
\* Scalar with the text true or false; a Scalar with another text or of a
\* style that is not plain fails with UnexpectedScalarValueError and an event
\* that is no Scalar fails with UnexpectedEventError
C20_BoolDecode ==
    (pc = "done" /\ origin = "events" /\ ty = "bool"
        /\ BoolEvent.e # "ScanError") =>
        IF BoolEvent.e = "Scalar"
        THEN IF BoolEvent.style = "Plain" /\ BoolEvent.v \in BoolTexts
             THEN res.ok /\ res.val = (BoolEvent.v = <<"t", "r", "u", "e">>)
             ELSE ~res.ok /\ res.err = "UnexpectedScalarValueError"
        ELSE ~res.ok /\ res.err = "UnexpectedEventError"

\* C20 amended: deserialize_bool yields true or false only for a plain Scalar
\* with the text true or false; a plain Scalar with another text fails with
\* UnexpectedScalarValueError; a Scalar of a style that is not plain, whatever
\* its text, and an event that is no Scalar fail with UnexpectedEventError; a
\* scan error fails with ScanError
C20_BoolDecodeByStyle ==
    (pc = "done" /\ origin = "events" /\ ty = "bool") =>
        IF BoolEvent.e = "Scalar" /\ BoolEvent.style = "Plain"
        THEN IF BoolEvent.v \in BoolTexts
             THEN res.ok /\ res.val = (BoolEvent.v = <<"t", "r", "u", "e">>)
             ELSE ~res.ok /\ res.err = "UnexpectedScalarValueError"
        ELSE /\ ~res.ok
             /\ res.err = IF BoolEvent.e = "ScanError" THEN "ScanError"
                          ELSE "UnexpectedEventError"

\* the quoted 'true' was given to a bool target and was refused as an event
C20_Witness ==
    /\ pc = "done"
    /\ origin = "events"
    /\ ty = "bool"
    /\ BoolEvent = Scalar(<<"t", "r", "u", "e">>, "SingleQuoted")
    /\ res.err = "UnexpectedEventError"

\* the texts str::parse reads as the number n for an integer type whose
\* range starts at lo: the digits of n, after a '+' too, after a leading zero
\* too, and -0 for a signed type
DecimalForms(n, lo) ==
    {IntToStr(n)}
    \cup (IF n >= 0 THEN {<<"+">> \o IntToStr(n), <<"0">> \o IntToStr(n)} ELSE {})
    \cup (IF n = 0 /\ lo < 0 THEN {<<"-", "0">>} ELSE {})

\* the event an integer target decoded, after the two leading events
IntEvent == events[3]

\* C21: for each integer target a plain scalar decodes to n exactly when its
\* text is a decimal form of a number n inside the range of the width;
\* every other text fails with ParseNumberError, and no number outside the
\* range comes back wrapped or truncated
C21_IntegerWidth ==
    (pc = "done" /\ origin = "events" /\ ty \in IntTargets
        /\ IntEvent.e = "Scalar" /\ IntEvent.style = "Plain"
        /\ IntEvent.v \in WidthTexts)
    => LET d == TypeDef(ty)
           inRange == {n \in WidthNumbers :
                         /\ n >= d.lo
                         /\ n <= d.hi
                         /\ IntEvent.v \in DecimalForms(n, d.lo)}
       IN  /\ res.ok <=> inRange # {}
           /\ res.ok => res.val \in inRange
           /\ ~res.ok => res.err = "ParseNumberError"

\* C21 witness: 128 given to i8 and 256 given to u8 are outside the range
\* and fail as a number that does not parse
C21_Witness ==
    /\ pc = "done"
    /\ origin = "events"
    /\ \/ ty = "i8" /\ IntEvent = Plain(<<"1", "2", "8">>)
       \/ ty = "u8" /\ IntEvent = Plain(<<"2", "5", "6">>)
    /\ ~res.ok
    /\ res.err = "ParseNumberError"

\* the event a char target decoded, after the two leading events
CharEvent == events[3]

\* C22: deserialize_char succeeds, yielding that character, for every
\* plain-style Scalar whose text is exactly one character, a character of
\* more than one byte included; every other input fails
C22_CharDecode ==
    (pc = "done" /\ origin = "events" /\ ty = "char")
    => IF CharEvent.e = "Scalar" /\ CharEvent.style = "Plain"
          /\ Len(CharEvent.v) = 1
       THEN res.ok /\ res.val = CharEvent.v[1]
       ELSE ~res.ok

\* the position after the events of the containers that are still open:
\* depth counts them
RECURSIVE CloseAt(_, _, _)
CloseAt(evs, pos, depth) ==
    IF depth = 0 \/ pos > Len(evs) THEN pos
    ELSE IF evs[pos].e \in {"SequenceStart", "MappingStart"}
         THEN CloseAt(evs, pos + 1, depth + 1)
    ELSE IF evs[pos].e \in {"SequenceEnd", "MappingEnd"}
         THEN CloseAt(evs, pos + 1, depth - 1)
    ELSE CloseAt(evs, pos + 1, depth)

\* the position after the value that starts at pos: after the End that
\* matches a Start, after the one event of a scalar
ValueEnd(evs, pos) ==
    IF evs[pos].e \in {"SequenceStart", "MappingStart"}
    THEN CloseAt(evs, pos + 1, 1)
    ELSE pos + 1

\* C23: a decode that returns success has consumed the Start event of its
\* container, every event of the values in it and the matching End event,
\* and one event for a scalar: the parser stands right after the value
C23_BalancedConsumption ==
    (pc = "done" /\ res.ok)
    => res.pos = ValueEnd(events, YamlDeserializer_from_str(events))

\* C23 for the typed targets alone
C23_TypedBalanced ==
    ty \notin NodeTargets => C23_BalancedConsumption

\* the number of elements of the sequence whose first element is at pos
RECURSIVE ElementCount(_, _)
ElementCount(evs, pos) ==
    IF pos > Len(evs) \/ evs[pos].e = "SequenceEnd" THEN 0
    ELSE 1 + ElementCount(evs, ValueEnd(evs, pos))

\* the number of components of the tuple target
Arity == Len(TypeDef(ty).types)

\* C24: a tuple or tuple struct of arity n decodes from a sequence only if
\* the sequence has exactly n elements; more than n elements fail with
\* 'Expected SequenceEnd', fewer than n fail when the element pull reports
\* the end, and a first event other than SequenceStart fails with
\* UnexpectedEventError
C24_FixedArity ==
    (pc = "done" /\ origin = "events" /\ ty \in TupleTargets)
    => /\ (res.ok /\ events[3].e = "SequenceStart")
              => ElementCount(events, 4) = Arity
       /\ events[3].e \notin {"SequenceStart", "ScanError"}
              => ~res.ok /\ res.err = "UnexpectedEventError"
       /\ \A k \in 0..(Arity + 2) :
             events = Document(TupleBody(ty, k))
                => /\ res.ok <=> k = Arity
                   /\ k > Arity => res.err = "Expected SequenceEnd"
                   /\ k < Arity => res.err = "invalid_length"
                                    /\ events[res.pos].e = "SequenceEnd"

\* C24 witness: a tuple of three components was given four elements, and
\* the decode failed at the event after the third
C24_Witness ==
    /\ pc = "done"
    /\ ty = "(i32, i8, i64)"
    /\ events = Document(TupleBody(ty, 4))
    /\ ~res.ok
    /\ res.err = "Expected SequenceEnd"

\* followed call by call, the decode ends at the position and with the
\* outcome that from_str gives
PullsAgree ==
    (pc = "done" /\ origin = "events")
    => LET whole == from_events(ty, events)
       IN  /\ frames = <<>>
           /\ res.ok = whole.ok
           /\ res.pos = whole.pos
           /\ res.err = whole.err

\* C25: decode terminates: for every event stream and every target, the
\* decode that from_str starts returns, a value or an error, after finitely
\* many pulls
C25_DecodeTerminates == (pc = "ready") ~> (pc = "done")

\* C25 witness: the decode of a sequence of three elements went through its
\* pulls and returned
C25_Witness ==
    /\ pc = "done"
    /\ ty = "Vec<i32>"
    /\ ElementCount(events, 4) = 3
    /\ frames = <<>>
    /\ res.ok
    /\ res.pos = 8

\* C25 (each pull moves on): a call that returns to its caller without an
\* error has taken at least one event from the parser.
C25_ReturnsConsume ==
    [][(pc = "pull" /\ Len(frames') < Len(frames) /\ res'.ok)
          => res'.pos > res.pos]_vars

\* the value is a map or a struct that holds no entry
EmptyMap ==
    TypeDef(ty).k \in {"map", "struct"} /\ val = <<>>

\* C26: empty maps have no text form: a map or struct with zero entries is
\* written as no characters at all, at every level, and from_str of the
\* text that to_string gave fails; a struct whose field x is an empty map
\* is written with nothing between the indentation and the newline of that
\* field, and does not come back
C26_EmptyMapsNoText ==
    /\ (origin \in {"value", "nested"} /\ EmptyMap /\ pc # "start") =>
          /\ Good(enc)
          /\ text = <<>>
          /\ enc.level = enc.low
    /\ (origin = "value" /\ EmptyMap /\ pc = "done") => ~res.ok
    /\ (origin = "value" /\ ty = "StructWithMap" /\ pc # "start"
        /\ val[1] = <<>>) =>
          /\ text = (<<QUOTE, "x", QUOTE, ":", NL, SP, SP, NL>>
                     \o <<QUOTE, "y", QUOTE, ":", NL, SP, SP>>)
                    \o (IntToStr(val[2]) \o <<NL>>)
          /\ (pc = "done" => ~res.ok)

\* C26 witness: the struct without fields was written as the empty text and
\* from_str of that text returned an error; so did the struct whose field is
\* an empty map
C26_Witness ==
    /\ origin = "value"
    /\ pc = "done"
    /\ ty = "EmptyStruct"
    /\ text = <<>>
    /\ ~res.ok

\* C27: option ignores quoting and writes some as the inner value.  A
\* document of one Scalar with the text null or ~, in any style, decodes
\* into an option as none and the Scalar is consumed; Some(v) is written as
\* exactly what v alone is written as, and None as ~; so Some("null") and
\* Some("~") are written as 'null' and '~' and decode to None, and
\* Some(None) of an option of an option is written as ~ and decodes to None
C27_OptionIgnoresQuoting ==
    /\ (pc = "done" /\ origin = "events" /\ TypeDef(ty).k = "option"
        /\ First.e = "Scalar" /\ NullText(First.v)) =>
          /\ res.ok
          /\ res.val = <<>>
          /\ res.pos = Start + 1
    /\ (pc # "start" /\ origin = "value" /\ TypeDef(ty).k = "option") =>
          IF val = <<>> THEN Good(enc) /\ text = <<"~">>
          ELSE /\ Good(enc) = to_string(TypeDef(ty).inner, val[1]).ok
               /\ text = to_string(TypeDef(ty).inner, val[1]).text
    /\ (pc # "start" /\ origin = "value" /\ ty = "Option<String>"
        /\ val # <<>> /\ NullText(val[1])) =>
          /\ text = <<QUOTE>> \o val[1] \o <<QUOTE>>
          /\ pc = "done" => (res.ok /\ res.val = <<>>)
    /\ (pc # "start" /\ origin = "value" /\ ty = "Option<Option<i32>>"
        /\ val = <<<<>>>>) =>
          /\ text = <<"~">>
          /\ pc = "done" => (res.ok /\ res.val = <<>>)

\* C27 witness: Some("null") was written in quotes and decoded to None
C27_Witness ==
    /\ origin = "value"
    /\ pc = "done"
    /\ ty = "Option<String>"
    /\ val = <<<<"n", "u", "l", "l">>>>
    /\ text = <<QUOTE, "n", "u", "l", "l", QUOTE>>
    /\ res.ok
    /\ res.val = <<>>

\* the events that follow the first value of the stream
Trailing ==
    SubSeq(events, IF ty = "i32" THEN 4 ELSE 7, Len(events))

\* C28: trailing input is not checked: a stream that holds the integer 1
\* or the sequence [a, b], followed by the end of the stream, by a second
\* document (complete or broken), by a scan error or by an event that
\* cannot follow, decodes to that first value; the decoder stands at the
\* first of the events that follow and has taken none of them
C28_TrailingUnchecked ==
    (pc = "done" /\ origin = "events" /\ ty \in {"i32", "Vec<String>"}
     /\ Len(events) >= 4 /\ events[2].e = "DocumentStart"
     /\ events[3] \in {Plain(<<"1">>), Ev("SequenceStart")}
     /\ (ty = "Vec<String>" =>
            SubSeq(events, 3, 6) = SequenceOf(<<Quoted(<<"a">>),
                                                Quoted(<<"b">>)>>)))
    => /\ res.ok
       /\ res.val = IF ty = "i32" THEN 1 ELSE <<<<"a">>, <<"b">>>>
       /\ res.pos = IF ty = "i32" THEN 4 ELSE 7

\* C28 witness: a stream of two documents was decoded to the value of the
\* first
C28_Witness ==
    /\ pc = "done"
    /\ origin = "events"
    /\ ty = "i32"
    /\ Trailing = <<Ev("DocumentEnd"), Ev("DocumentStart"), Plain(<<"2">>),
                    Ev("DocumentEnd"), Ev("StreamEnd")>>
    /\ res.ok
    /\ res.val = 1
    /\ res.pos = 4

\* a tree built from Null, Boolean, Integer, String, Array and non-empty
\* Hash nodes
RECURSIVE InNodeDomain(_)
InNodeDomain(n) ==
    CASE n.t \in {"Null", "Boolean", "Integer", "String"} -> TRUE
      [] n.t = "Array" -> \A i \in 1..Len(n.v) : InNodeDomain(n.v[i])
      [] n.t = "Hash" ->
            /\ n.v # <<>>
            /\ \A i \in 1..Len(n.v) :
                  InNodeDomain(n.v[i][1]) /\ InNodeDomain(n.v[i][2])
      [] OTHER -> FALSE

\* C29: dynamic node round trip: for every tree n of Null, Boolean, Integer,
\* String, Array and non-empty Hash nodes, to_string of the wrapper succeeds
\* and decoding its text into YamlNodeWrapper gives an equal tree; a String
\* node comes back as a String node
C29_NodeRoundTrip ==
    (origin = "node" /\ enc.low = 0 /\ InNodeDomain(val)) =>
        /\ pc = "encoded" => Good(enc)
        /\ pc = "done" => (res.ok /\ Agrees(res.val, val))

\* YamlDeserializer::from_str has returned and T::deserialize has not begun
Constructed ==
    /\ pc = "pull"
    /\ Len(frames) = 1
    /\ frames[1].f = "value"
    /\ frames[1].d = TypeDef(ty)

\* the leading events that the construction examines: the first one, and
\* the second one if the first is StreamStart
Examined ==
    IF events[1].e = "StreamStart" /\ Len(events) >= 2 THEN {1, 2} ELSE {1}

\* C30: decoder construction: YamlDeserializer::from_str consumes a leading
\* StreamStart and then a DocumentStart, each only if it is the next event,
\* and nothing else; if one of the events it examines is a scan error, the
\* construction returns a ScanError instead of a deserializer
C30_Construction ==
    Constructed =>
        IF \E i \in Examined : events[i].e = "ScanError"
        THEN ~res.ok /\ res.err = "ScanError"
        ELSE /\ res.ok
             /\ res.pos = 1 + Cardinality({i \in Examined :
                                 /\ events[i].e = <<"StreamStart",
                                                    "DocumentStart">>[i]
                                 /\ events[1].e = "StreamStart"})

\* where the key z, which is no field of TestStruct, stands in the mapping
\* of the document (0 if there is none)
ExtraKey ==
    IF \E i \in 4..Len(events) : events[i] = Plain(<<"z">>)
    THEN CHOOSE i \in 4..Len(events) :
            /\ events[i] = Plain(<<"z">>)
            /\ \A j \in 4..(i - 1) : events[j] # Plain(<<"z">>)
    ELSE 0

\* the document without the entry of the key z
WithoutExtra ==
    SubSeq(events, 1, ExtraKey - 1)
    \o SubSeq(events, ValueEnd(events, ExtraKey + 1), Len(events))

\* C31: unknown fields are skipped whole: a mapping with the two fields of
\* TestStruct and one more key, whose value is a scalar, a sequence or a
\* mapping of any nesting, decodes to the struct that the mapping without
\* that entry decodes to, and the decoder has consumed exactly the events of
\* the mapping, those of the extra value included
C31_UnknownFieldsSkipped ==
    (pc = "done" /\ origin = "events" /\ ty = "TestStruct"
     /\ events[3].e = "MappingStart" /\ ExtraKey # 0)
    => /\ res.ok
       /\ res.val = from_events(ty, WithoutExtra).val
       /\ res.val = <<1, <<"2">>>>
       /\ res.pos = ValueEnd(events, 3)

\* the visitor on top is about to pull, and the next event is the End of its
\* container: next_element_seed before SequenceEnd, next_key_seed before
\* MappingEnd
EndTest ==
    /\ pc = "pull"
    /\ frames # <<>>
    /\ res.ok
    /\ LET top == frames[Len(frames)]
           e   == peek(events, res.pos)
       IN  \/ /\ e.e = "SequenceEnd"
              /\ \/ top.f \in {"seq", "anyseq"}
                 \/ top.f = "tuple" /\ top.i <= Len(top.d.types)
           \/ /\ e.e = "MappingEnd"
              /\ \/ top.f = "struct"
                 \/ top.f \in {"map", "anymap"} /\ top.phase = "key"

\* the visitor has stopped, and the deserialize_ method that called it is
\* about to take the End event of its container
EndPending ==
    /\ pc = "pull"
    /\ frames # <<>>
    /\ res.ok
    /\ frames[Len(frames)].f = "end"
    /\ LET kind == frames[Len(frames)].kind
           e    == peek(events, res.pos)
       IN  \/ kind \in {"seq", "anyseq"} /\ e.e = "SequenceEnd"
           \/ kind \in {"map", "anymap"} /\ e.e = "MappingEnd"

\* C32: the end-of-container test does not consume: a pull that finds
\* SequenceEnd (next_element_seed) or MappingEnd (next_key_seed) as the next
\* event returns no element and calls no deserialize_ method, the parser
\* stands where it stood and the End event is still the next event, so the
\* same test gives the same answer again; the deserialize_ method of the
\* container then takes exactly that event
C32_EndTestDoesNotConsume ==
    [][/\ EndTest =>
            /\ res'.pos = res.pos
            /\ events' = events
            /\ peek(events', res'.pos) = peek(events, res.pos)
            /\ Len(frames') <= Len(frames)
            /\ res'.ok => /\ Len(frames') = Len(frames)
                           /\ EndPending'
                           /\ Ok_None(events', res'.pos) = res'
       /\ EndPending =>
            /\ res'.ok
            /\ res'.pos = res.pos + 1
            /\ Len(frames') = Len(frames) - 1]_vars

\* C32 witness: the loop over a sequence of three elements has met the
\* SequenceEnd, and the parser still stands before it
C32_Witness ==
    /\ EndPending
    /\ ty = "Vec<i32>"
    /\ ElementCount(events, 4) = 3
    /\ frames = <<[f |-> "end", kind |-> "seq"]>>
    /\ res.pos = 7
    /\ events[7].e = "SequenceEnd"

\* C33: the level guard of decr_level: a call of decr_level while the level
\* is 0 (a map value given to serialize_value with no key before it, at top
\* level) aborts with an assertion failure, so the encoder is never seen at
\* level -1 or below, neither when a call has returned nor within it
C33_LevelGuard ==
    /\ enc.level >= 0
    /\ enc.low >= 0

\* the spaces a text ends with
SpacesAtEnd(s) ==
    CHOOSE k \in 0..Len(s) :
        /\ \A i \in (Len(s) - k + 1)..Len(s) : s[i] = SP
        /\ k = Len(s) \/ s[Len(s) - k] # SP

\* C34: the indentation width: write_indent writes nothing for a level of 0
\* or less and level + 1 spaces for a level of 1 or more: 2 spaces at level 1,
\* 3 at level 2, one more for every level, a child strictly more than its
\* parent; and that is what stands at the end of the text after every call
\* of serialize_key and serialize_value, behind the newline the call wrote
C34_IndentationWidth ==
    LET l == enc.level
        w == write_indent(l)
    IN  /\ Len(w) = IF l <= 0 THEN 0 ELSE l + 1
        /\ \A i \in 1..Len(w) : w[i] = SP
        /\ l >= 0 => Len(write_indent(l + 1)) > Len(w)
        /\ l >= 1 => Len(write_indent(l + 1)) = Len(w) + 1
        /\ Len(write_indent(1)) = 2
        /\ Len(write_indent(2)) = 3
        /\ (origin = "map" /\ Good(enc) /\ enc.out # <<>>) =>
              LET k == SpacesAtEnd(enc.out)
              IN  /\ k = IF l <= 0 THEN 0 ELSE l + 1
                  /\ enc.out[Len(enc.out) - k] = NL

\* C34 witness: two keys from level 0: the first is followed by 2 spaces, the
\* second, its child, by 3
C34_Witness ==
    /\ origin = "map"
    /\ enc.level = 2
    /\ enc.out = <<"t", "r", "u", "e", ":", NL, SP, SP,
                   "f", "a", "l", "s", "e", ":", NL, SP, SP, SP>>
=============================================================================
